---- MODULE Spec2Model ----
(***************************************************************************)
(* A model of deck's event core: the Dispatcher (publish/subscribe bus    *)
(* plus the auto-reconnecting WebSocket client, src/js/core/Dispatcher.js) *)
(* and the Deck controller derived from it (src/js/core/Deck.js).          *)
(*                                                                         *)
(* Strings that the code inspects character by character (event names,    *)
(* wildcard patterns, regular-expression sources) are sequences of         *)
(* one-character strings.  JavaScript values are tagged records.           *)
(***************************************************************************)
EXTENDS Integers, Sequences, FiniteSets, TLC

VARIABLES
    kind,             \* class of the instance: "Dispatcher" or "Deck"
    state,            \* this.state: property name -> JavaScript value
    wss,              \* this.wss: 0 is null, else an index into sockets
    sockets,          \* readyState of every WebSocket the instance created
    events,           \* this.events, in property (insertion) order
    timers,           \* pending setTimeout(() => this.connect(), delay) calls
    pendingClose,     \* socket whose close event follows its error event
    disconnectCalled, \* history: disconnect() has been called
    outbox,           \* history: what wss.send() put on the wire, in order
    op,               \* the call or handler that ran last
    calls,            \* subscriber callbacks it invoked, in order
    emitted,          \* emit() calls it made, in order
    thrown,           \* exception that escaped it ("none" if it returned)
    said,             \* toast notifications it raised
    dispatched,       \* DOM events it dispatched on document
    scheduled,        \* reconnect timers it armed
    unregistered,     \* registrations it took out of the event table
    returned,         \* the value it returned
    domEvents,        \* DOM events it dispatched on elements
    notified,         \* instances whose onStateChange it invoked, in order
    elements,         \* the DOM elements components were constructed on
    instances,        \* the component instances: property name -> value
    tasks,            \* window timers armed by components
    requested,        \* history: the last of open() and close() that returned, per instance
    components,       \* Deck.components: the registered constructors, in property order
    registry,         \* Deck.instances: dci -> instance, in property order
    queues,           \* the Queue objects of the page
    uploads           \* the Uploader's upload list, its upload() calls awaiting the
                      \* network, and (history) the files transmitted

vars == <<kind, state, wss, sockets, events, timers, pendingClose,
          disconnectCalled, outbox, op, calls, emitted, thrown, said, dispatched,
          scheduled, unregistered, returned, domEvents, notified, elements,
          instances, tasks, requested, components, registry, queues, uploads>>

busVars == <<events>>
connVars == <<state, wss, sockets, timers, pendingClose, disconnectCalled>>
deckVars == <<components, registry>>
pageVars == <<queues, uploads>>
auxVars == <<requested, deckVars, pageVars>>
compVars == <<elements, instances, tasks, auxVars>>

-----------------------------------------------------------------------------
(* Bounds of the model. *)

MaxSockets == 3      \* WebSocket objects created per run
MaxRegs == 2         \* registrations in the event table (bus runs)
MaxSends == 1        \* messages put on the wire in a run
MaxInstances == 2    \* component instances constructed in a run
MaxTimers == 3       \* window timers armed by components in a run
MaxListeners == 1    \* listeners the page adds to one element
MaxAttached == 2     \* listeners autoloaded constructors attach to one element
MaxDialogs == 1      \* components constructed in a run with DOM events
MaxDialogTimers == 2 \* timers armed by open() and close() in a run
MaxAccordions == 1   \* Accordion instances constructed in a run
MaxFeeds == 1        \* Feed and Wire instances constructed in a run
MaxFiles == 3        \* files in an Uploader's upload list
MaxUploads == 2      \* upload() calls of an Uploader awaiting the network
MaxQueues == 1       \* Queue objects constructed in a run
MaxQueued == 3       \* items a queue holds in a run
MaxConnRegs == 1     \* registrations in the event table (connection runs)

-----------------------------------------------------------------------------
(* JavaScript values. *)

JSUndefined == [t |-> "undefined"]
JSNull == [t |-> "null"]
JSBool(b) == [t |-> "boolean", b |-> b]
JSNum(n) == [t |-> "number", n |-> n]
JSStr(s) == [t |-> "string", s |-> s]
JSObj(fields) == [t |-> "object", fields |-> fields]
JSArr(items) == [t |-> "array", items |-> items]
JSNaN == [t |-> "NaN"]
JSFun(f) == [t |-> "function", f |-> f]

EmptyObject == [k \in {} |-> JSUndefined]

\* obj[key] on a plain object: a missing property reads as undefined.
GetProp(obj, key) == IF key \in DOMAIN obj THEN obj[key] ELSE JSUndefined

\* obj[key] = value on a plain object.
SetProp(obj, key, value) == (key :> value) @@ obj

\* ToBoolean.
Truthy(v) ==
    CASE v.t = "undefined" -> FALSE
      [] v.t = "null" -> FALSE
      [] v.t = "boolean" -> v.b
      [] v.t = "number" -> v.n # 0
      [] v.t = "string" -> Len(v.s) > 0
      [] v.t = "NaN" -> FALSE
      [] OTHER -> TRUE

-----------------------------------------------------------------------------
(* Event names and callbacks used as inputs. *)

wssConnect == <<"w","s","s","C","o","n","n","e","c","t">>
wssDisconnect == <<"w","s","s","D","i","s","c","o","n","n","e","c","t">>
stateChange == <<"s","t","a","t","e","C","h","a","n","g","e">>
undefinedName == <<"u","n","d","e","f","i","n","e","d">>

feed42 == <<"f","e","e","d",":","4","2">>
feedStar == <<"f","e","e","d",":","*">>
wireStar == <<"w","i","r","e",":","*">>
fDotStar == <<"f",".","*">>
feedColon == <<"f","e","e","d",":">>
feedNL == <<"f","e","e","d",":","\n","2">>
fxd == <<"f","x","d">>
fDotd == <<"f",".","d">>

\* Callbacks are functions compared by identity; cbThrow throws when called.
Callbacks == {"cbA", "cbB", "cbThrow"}
Throws(cb) == cb = "cbThrow"

NoResult == [calls |-> <<>>, threw |-> FALSE]

-----------------------------------------------------------------------------
(* Sequence helpers. *)

RECURSIVE IndexOfFrom(_, _, _)
IndexOfFrom(s, x, i) ==
    IF i > Len(s) THEN 0
    ELSE IF s[i] = x THEN i
    ELSE IndexOfFrom(s, x, i + 1)

\* Array.prototype.indexOf, 1-based; 0 stands for -1.
IndexOf(s, x) == IndexOfFrom(s, x, 1)

\* Array.prototype.splice(index, 1).
Splice1(s, i) == SubSeq(s, 1, i - 1) \o SubSeq(s, i + 1, Len(s))

\* String.prototype.includes for a one-character needle.
Includes(s, ch) == \E i \in 1..Len(s) : s[i] = ch

RECURSIVE SplitFrom(_, _, _, _)
SplitFrom(s, ch, i, cur) ==
    IF i > Len(s) THEN <<cur>>
    ELSE IF s[i] = ch THEN <<cur>> \o SplitFrom(s, ch, i + 1, <<>>)
    ELSE SplitFrom(s, ch, i + 1, Append(cur, s[i]))

\* String.prototype.split for a one-character separator.
Split(s, ch) == SplitFrom(s, ch, 1, <<>>)

RECURSIVE Join(_, _)
\* Array.prototype.join.
Join(parts, sep) ==
    IF Len(parts) = 0 THEN <<>>
    ELSE IF Len(parts) = 1 THEN parts[1]
    ELSE parts[1] \o sep \o Join(Tail(parts), sep)

-----------------------------------------------------------------------------
(* Regular expressions, as far as emit() builds them:                      *)
(* new RegExp(source).test(string) with no flags.                          *)

\* "." matches any character except a line terminator (no s flag).
\* U+2028 and U+2029 are line terminators too; "\n" and "\r" stand for all.
LineTerminators == {"\n", "\r"}

\* The character class of emit's escaping regular expression.
EscapeClass ==
    {".", "*", "+", "?", "^", "=", "!", ":", "$", "{", "}", "(", ")", "|",
     "[", "]", "/", "\\"}

RECURSIVE escaped(_)
\* eventName.replace(/([.*+?^=!:${}()|\[\]\/\\])/g, "\\$1")
escaped(s) ==
    IF Len(s) = 0 THEN <<>>
    ELSE (IF Head(s) \in EscapeClass THEN <<"\\", Head(s)>> ELSE <<Head(s)>>)
         \o escaped(Tail(s))

\* "^" + name.split("*").map(escaped).join(".*") + "$"
WildcardSource(name) ==
    LET parts == Split(name, "*")
        mapped == [i \in 1..Len(parts) |-> escaped(parts[i])]
    IN <<"^">> \o Join(mapped, <<".", "*">>) \o <<"$">>

Quantifiers == {"*", "+", "?"}

RECURSIVE RegExpParse(_, _)
\* The pattern as a sequence of terms: assertions ^ and $, and atoms (an
\* escaped character, "." or a literal character) with their quantifier.
RegExpParse(src, i) ==
    IF i > Len(src) THEN <<>>
    ELSE IF src[i] = "^" THEN <<[kind |-> "bol"]>> \o RegExpParse(src, i + 1)
    ELSE IF src[i] = "$" THEN <<[kind |-> "eol"]>> \o RegExpParse(src, i + 1)
    ELSE
        LET esc == src[i] = "\\" /\ i < Len(src)
            atom == IF esc THEN [kind |-> "char", ch |-> src[i + 1]]
                    ELSE IF src[i] = "." THEN [kind |-> "any", ch |-> "."]
                    ELSE [kind |-> "char", ch |-> src[i]]
            n == IF esc THEN i + 2 ELSE i + 1
            quantified == n <= Len(src) /\ src[n] \in Quantifiers
        IN <<[kind |-> atom.kind, ch |-> atom.ch,
              q |-> IF quantified THEN src[n] ELSE "1"]>>
           \o RegExpParse(src, IF quantified THEN n + 1 ELSE n)

AtomMatches(term, ch) ==
    IF term.kind = "any" THEN ch \notin LineTerminators ELSE ch = term.ch

RECURSIVE RegExpMatch(_, _, _, _)
\* Whether terms[i..] match str from position j on (backtracking search).
RegExpMatch(terms, i, str, j) ==
    IF i > Len(terms) THEN TRUE
    ELSE
        LET term == terms[i]
            here == j <= Len(str) /\ AtomMatches(term, str[j])
        IN CASE term.kind = "bol" -> j = 1 /\ RegExpMatch(terms, i + 1, str, j)
             [] term.kind = "eol" ->
                    j = Len(str) + 1 /\ RegExpMatch(terms, i + 1, str, j)
             [] OTHER ->
                    CASE term.q = "1" ->
                             here /\ RegExpMatch(terms, i + 1, str, j + 1)
                      [] term.q = "*" ->
                             \/ RegExpMatch(terms, i + 1, str, j)
                             \/ here /\ RegExpMatch(terms, i, str, j + 1)
                      [] term.q = "+" ->
                             here /\ (\/ RegExpMatch(terms, i + 1, str, j + 1)
                                      \/ RegExpMatch(terms, i, str, j + 1))
                      [] term.q = "?" ->
                             \/ RegExpMatch(terms, i + 1, str, j)
                             \/ here /\ RegExpMatch(terms, i + 1, str, j + 1)

\* RegExp.prototype.test: a match starting anywhere in str.
RegExpTest(src, str) ==
    LET terms == RegExpParse(src, 1)
    IN \E j \in 1..(Len(str) + 1) : RegExpMatch(terms, 1, str, j)

\* ToString of the values an event name can be.
JSToString(v) ==
    CASE v.t = "string" -> v.s
      [] v.t = "null" -> <<"n","u","l","l">>
      [] v.t = "boolean" ->
             IF v.b THEN <<"t","r","u","e">> ELSE <<"f","a","l","s","e">>
      [] OTHER -> undefinedName

-----------------------------------------------------------------------------
(* DispatcherEvent: one event-table entry. *)

DispatcherEvent(eventName) == [eventName |-> eventName, callbacks |-> <<>>]

registerCallback(e, callback) ==
    [e EXCEPT !.callbacks = Append(@, callback)]

unregisterCallback(e, callback) ==
    LET index == IndexOf(e.callbacks, callback)
    IN IF index > 0 THEN [e EXCEPT !.callbacks = Splice1(@, index)] ELSE e

\* fire(data): the callbacks of a copy of the list, in order; a callback
\* that throws ends the loop, the exception leaving fire.
fire(e, data) ==
    LET k == CHOOSE k \in 0..Len(e.callbacks) :
                /\ k # 0 => Throws(e.callbacks[k])
                /\ \A i \in 1..(IF k = 0 THEN Len(e.callbacks) ELSE k - 1) :
                      ~Throws(e.callbacks[i])
        n == IF k = 0 THEN Len(e.callbacks) ELSE k
    IN [calls |-> [i \in 1..n |->
                     [callback |-> e.callbacks[i], data |-> data,
                      registeredAs |-> e.eventName]],
        threw |-> k # 0]

\* Two steps in sequence; the second does not run when the first threw.
AndThen(r1, r2) ==
    IF r1.threw THEN r1
    ELSE [calls |-> r1.calls \o r2.calls, threw |-> r2.threw]

-----------------------------------------------------------------------------
(* Dispatcher: the event table. *)

\* this.events[eventName]: the position of the entry, 0 if there is none.
\* Event names are taken not to be names a plain object inherits
\* ("toString", "constructor", "__proto__", ...): for those the lookup yields
\* the inherited value and on, off and emit end in a TypeError.
EventIndex(evts, name) ==
    IF \E i \in 1..Len(evts) : evts[i].eventName = name
    THEN CHOOSE i \in 1..Len(evts) : evts[i].eventName = name
    ELSE 0

hasEvent(evts, name) == EventIndex(evts, name) # 0

\* The test emit applies to each entry of Object.entries(this.events).
WildcardMatches(name, eventName) ==
    /\ Includes(name, "*")
    /\ RegExpTest(WildcardSource(name), eventName)

RECURSIVE WildcardFire(_, _, _, _)
WildcardFire(evts, eventName, data, k) ==
    IF k > Len(evts) THEN NoResult
    ELSE IF WildcardMatches(evts[k].eventName, eventName)
         THEN AndThen(fire(evts[k], data),
                      WildcardFire(evts, eventName, data, k + 1))
         ELSE WildcardFire(evts, eventName, data, k + 1)

\* A variant of emit that tests the wildcard patterns before the exact name.
emitWildcardFirst(evts, eventName, data) ==
    LET name == JSToString(eventName)
        i == EventIndex(evts, name)
        direct == IF i # 0 THEN fire(evts[i], data) ELSE NoResult
    IN AndThen(WildcardFire(evts, name, data, 1), direct)

\* emit(eventName, data): what it invokes and whether an exception left it.
emit(evts, eventName, data) ==
    LET name == JSToString(eventName)
        i == EventIndex(evts, name)
        direct == IF i # 0 THEN fire(evts[i], data) ELSE NoResult
    IN AndThen(direct, WildcardFire(evts, name, data, 1))

\* on(eventName, callback): the event table afterwards.
on(evts, name, callback) ==
    LET i == EventIndex(evts, name)
    IN IF i = 0
       THEN Append(evts, registerCallback(DispatcherEvent(name), callback))
       ELSE [evts EXCEPT ![i] = registerCallback(@, callback)]

\* A variant of off that keeps the entry of a name whose list became empty.
offKeepsEntry(evts, name, callback) ==
    LET i == EventIndex(evts, name)
    IN IF i # 0 /\ IndexOf(evts[i].callbacks, callback) > 0
       THEN [evts EXCEPT ![i] = unregisterCallback(@, callback)]
       ELSE evts

\* off(eventName, callback): the event table afterwards.
off(evts, name, callback) ==
    LET i == EventIndex(evts, name)
    IN IF i # 0 /\ IndexOf(evts[i].callbacks, callback) > 0
       THEN LET e == unregisterCallback(evts[i], callback)
            IN IF Len(e.callbacks) = 0
               THEN Splice1(evts, i)
               ELSE [evts EXCEPT ![i] = e]
       ELSE evts

\* destroyEvent(eventName): the event table afterwards.
destroyEvent(evts, name) ==
    LET i == EventIndex(evts, name)
    IN IF i # 0 THEN Splice1(evts, i) ELSE evts

\* Registrations held by the table.
RECURSIVE RegCount(_)
RegCount(evts) ==
    IF Len(evts) = 0 THEN 0
    ELSE Len(Head(evts).callbacks) + RegCount(Tail(evts))

-----------------------------------------------------------------------------
(* The instance: its own properties and its methods, by class. *)

ReconnectionDelay == 1000

\* Dispatcher's constructor: this.state.
DispatcherState ==
    [reconnection |-> JSBool(TRUE), reconnectionDelay |-> JSNum(ReconnectionDelay)]

\* Deck's constructor, after super(): this.state = new Proxy(options.state
\* || {}, ...), with default options.
DeckState == EmptyObject

OwnProperties(k) ==
    {"host", "wss", "state", "events"}
    \cup (IF k = "Deck"
          THEN {"options", "components", "instances", "ui", "util", "notifier"}
          ELSE {})

Methods(k) ==
    {"connect", "disconnect", "isConnected", "wssState", "send", "emit", "on",
     "off", "hasEvent", "destroyEvent"}
    \cup (IF k = "Deck"
          THEN {"register", "autoload", "getInstance", "getState", "setState",
                "say"}
          ELSE {})

\* this.reconnectionDelay as the close handler reads it: a property of the
\* instance itself, not of this.state.
ThisReconnectionDelay(k) ==
    IF "reconnectionDelay" \in OwnProperties(k) \cup Methods(k)
    THEN JSNum(ReconnectionDelay)
    ELSE JSUndefined

\* WebSocket.readyState.
CONNECTING == 0
OPEN == 1
CLOSING == 2
CLOSED == 3

\* WebSocket.close(): only a connecting or open socket starts closing.
close(socks, s) ==
    IF socks[s] \in {CONNECTING, OPEN} THEN [socks EXCEPT ![s] = CLOSING]
    ELSE socks

\* setTimeout(handler, delay): the timer as armed; a delay that is not a
\* number (undefined) counts as 0.
setTimeout(delay) ==
    [delay |-> delay, ms |-> IF delay.t = "number" /\ delay.n > 0 THEN delay.n ELSE 0]

\* ToastManager.notification(message, type) with a message string and a
\* type string.
notification(message, type) == [message |-> message, type |-> type]

\* this.state[key] = value.  Deck's state is a Proxy whose set trap stores
\* the value and then emits stateChange with {[key]: value}.
AssignState(key, value) ==
    [state |-> SetProp(state, key, value),
     emitted |-> IF kind = "Deck"
                 THEN <<[eventName |-> JSStr(stateChange),
                         data |-> JSObj(key :> value)]>>
                 ELSE <<>>,
     r |-> IF kind = "Deck"
           THEN emit(events, JSStr(stateChange), JSObj(key :> value))
           ELSE NoResult]

RECURSIVE NatToString(_)
\* The decimal digits of a natural number.
NatToString(n) ==
    LET digit == <<"0","1","2","3","4","5","6","7","8","9">>[(n % 10) + 1]
    IN IF n < 10 THEN <<digit>> ELSE Append(NatToString(n \div 10), digit)

RECURSIVE QuoteFrom(_, _)
\* The characters of a string inside a JSON string literal.
QuoteFrom(str, i) ==
    IF i > Len(str) THEN <<>>
    ELSE (IF str[i] \in {"\"", "\\"} THEN <<"\\", str[i]>> ELSE <<str[i]>>)
         \o QuoteFrom(str, i + 1)

\* JSON.stringify(data) for a primitive value: a string, or undefined when
\* data is undefined.
JSONstringify(v) ==
    CASE v.t = "string" -> JSStr(<<"\"">> \o QuoteFrom(v.s, 1) \o <<"\"">>)
      [] v.t = "number" -> JSStr(NatToString(v.n))
      [] v.t = "undefined" -> JSUndefined
      [] OTHER -> JSStr(JSToString(v))

\* A send that put every message on the wire of the current socket
\* whatever its readyState.
sendWhateverState(socks, w, box, data) ==
    IF w # 0
    THEN Append(box, [socket |-> w, text |-> JSToString(JSONstringify(data))])
    ELSE box

\* send(data): what is on the wire after the call.  wss.send() takes the
\* string form of its argument.
send(socks, w, box, data) ==
    IF w # 0 /\ socks[w] = OPEN
    THEN Append(box, [socket |-> w, text |-> JSToString(JSONstringify(data))])
    ELSE box

\* isConnected(): the value returned; reading readyState of a null wss is a
\* TypeError.
isConnected(socks, w) ==
    IF w = 0 THEN [threw |-> TRUE, value |-> JSUndefined]
    ELSE [threw |-> FALSE, value |-> JSBool(socks[w] # OPEN)]

-----------------------------------------------------------------------------
(* Component: the configuration attribute.                                 *)

\* The characters String.prototype.trim removes.
WhiteSpace == {" ", "\t", "\n", "\r"}

RECURSIVE TrimStart(_)
TrimStart(s) ==
    IF Len(s) > 0 /\ s[1] \in WhiteSpace THEN TrimStart(Tail(s)) ELSE s

RECURSIVE TrimEnd(_)
TrimEnd(s) ==
    IF Len(s) > 0 /\ s[Len(s)] \in WhiteSpace
    THEN TrimEnd(SubSeq(s, 1, Len(s) - 1)) ELSE s

\* String.prototype.trim.
trim(s) == TrimEnd(TrimStart(s))

UpperCase == <<"A","B","C","D","E","F","G","H","I","J","K","L","M",
               "N","O","P","Q","R","S","T","U","V","W","X","Y","Z">>
LowerCase == <<"a","b","c","d","e","f","g","h","i","j","k","l","m",
               "n","o","p","q","r","s","t","u","v","w","x","y","z">>

\* String.prototype.toLowerCase.
toLowerCase(s) ==
    [i \in 1..Len(s) |-> IF IndexOf(UpperCase, s[i]) # 0
                         THEN LowerCase[IndexOf(UpperCase, s[i])] ELSE s[i]]

Digits == <<"0","1","2","3","4","5","6","7","8","9">>

RECURSIVE DigitsValue(_)
\* The number a string of decimal digits denotes.
DigitsValue(s) ==
    IF Len(s) = 0 THEN 0
    ELSE 10 * DigitsValue(SubSeq(s, 1, Len(s) - 1)) + (IndexOf(Digits, s[Len(s)]) - 1)

RECURSIVE DigitPrefix(_)
\* The longest prefix of decimal digits.
DigitPrefix(s) ==
    IF Len(s) > 0 /\ IndexOf(Digits, s[1]) # 0
    THEN <<s[1]>> \o DigitPrefix(Tail(s)) ELSE <<>>

\* Number(string), for strings of decimal digits, blank strings (0) and
\* strings that are no number (NaN).
ToNumber(s) ==
    LET t == trim(s)
    IN IF t = <<>> THEN JSNum(0)
       ELSE IF DigitPrefix(t) = t THEN JSNum(DigitsValue(t))
       ELSE JSNaN

\* isNaN(string).
isNaN(s) == ToNumber(s) = JSNaN

\* parseFloat(string): the number its longest numeric prefix denotes, NaN if
\* there is none.
parseFloat(s) ==
    LET t == DigitPrefix(TrimStart(s))
    IN IF t = <<>> THEN JSNaN ELSE JSNum(DigitsValue(t))

\* Property names, as strings of characters.
Chars ==
    [a |-> <<"a">>, b |-> <<"b">>, c |-> <<"c">>, k |-> <<"k">>, u |-> <<"u">>,
     dci |-> <<"d","c","i">>,
     stateKey |-> <<"s","t","a","t","e","K","e","y">>]
    @@ ("drop-g1" :> <<"d","r","o","p","-","g","1">>)
    @@ ("drop-g2" :> <<"d","r","o","p","-","g","2">>)

\* The property a string of characters names.
Intern(cs) == CHOOSE key \in DOMAIN Chars : Chars[key] = cs

\* One step of the reduce over the pairs: [key, value] = pair.split(':')
\* trimmed, and the value coerced.  A pair without ':' leaves value
\* undefined, and value.includes is a TypeError.
ParsePair(pair) ==
    LET parts == Split(pair, ":")
        key == trim(parts[1])
        value == trim(parts[2])
        items == Split(value, ",")
    IN IF Len(parts) < 2 THEN [threw |-> TRUE, key |-> "", value |-> JSUndefined]
       ELSE [threw |-> FALSE,
             key |-> Intern(key),
             value |->
                 IF Includes(value, ",")
                 THEN JSArr([i \in 1..Len(items) |-> JSStr(trim(items[i]))])
                 ELSE IF toLowerCase(value) = <<"t","r","u","e">> THEN JSBool(TRUE)
                 ELSE IF toLowerCase(value) = <<"f","a","l","s","e">> THEN JSBool(FALSE)
                 ELSE IF ~isNaN(value) THEN parseFloat(value)
                 ELSE JSStr(value)]

RECURSIVE ParsePairs(_, _, _)
\* keyValuePairs.reduce(..., {}): the object built, or the TypeError.
ParsePairs(pairs, i, acc) ==
    IF i > Len(pairs) THEN [threw |-> FALSE, value |-> JSObj(acc)]
    ELSE LET p == ParsePair(pairs[i])
         IN IF p.threw THEN [threw |-> TRUE, value |-> JSUndefined]
            ELSE ParsePairs(pairs, i + 1, SetProp(acc, p.key, p.value))

RECURSIVE FilterBoolean(_)
\* filter(Boolean) on an array of strings: the empty ones go.
FilterBoolean(strs) ==
    IF Len(strs) = 0 THEN <<>>
    ELSE (IF Len(strs[1]) > 0 THEN <<strs[1]>> ELSE <<>>) \o FilterBoolean(Tail(strs))

\* Element.hasAttribute / Element.getAttribute.
hasAttribute(el, attr) == \E i \in 1..Len(el.attributes) : el.attributes[i].name = attr
getAttribute(el, attr) ==
    el.attributes[CHOOSE i \in 1..Len(el.attributes) : el.attributes[i].name = attr].value

\* #getConfigAttribute() on the instance this: what it returns (undefined,
\* false or the parsed object), or the TypeError it throws.
getConfigAttribute(this, elems) ==
    IF ~Truthy(GetProp(this, "element")) THEN [threw |-> FALSE, value |-> JSUndefined]
    ELSE LET el == elems[this.element.id]
             name == JSToString(GetProp(this, "name"))
             dataName == <<"d","a","t","a","-">> \o name
             value == IF hasAttribute(el, name) THEN trim(getAttribute(el, name))
                      ELSE trim(getAttribute(el, dataName))
             split == Split(value, ";")
             keyValuePairs == FilterBoolean([i \in 1..Len(split) |-> trim(split[i])])
         IN IF ~hasAttribute(el, name) /\ ~hasAttribute(el, dataName)
            THEN [threw |-> FALSE, value |-> JSBool(FALSE)]
            ELSE IF value = <<>> THEN [threw |-> FALSE, value |-> JSUndefined]
            ELSE ParsePairs(keyValuePairs, 1, EmptyObject)

-----------------------------------------------------------------------------
(* Component: the constructor.                                             *)

\* Object.assign(target, source): a source that is no object gives nothing.
ObjectAssign(target, source) ==
    IF source.t = "object" THEN source.fields @@ target ELSE target

\* The instance after the default assignments; dci is what
\* Math.random().toString(36).substring(2, 9) gave.
Defaults(context, dci) ==
    [dci |-> JSStr(dci),
     name |-> JSNull,
     type |-> JSNull,
     element |-> JSNull,
     debug |-> JSBool(FALSE),
     storage |-> JSBool(FALSE),
     stateKey |-> JSStr(JSToString(GetProp(context, "name")) \o <<"-">> \o dci),
     state |-> JSObj(EmptyObject),
     timeout |-> JSUndefined,
     isTransitioning |-> JSBool(FALSE),
     transitions |-> JSObj([enter |-> JSBool(FALSE), leave |-> JSBool(FALSE)]),
     maxMobileWidth |-> JSStr(<<"6","4","0","p","x">>)]

\* #initStorage(): 'local' and 'session' are replaced by an accessor object.
initStorage(this) ==
    IF this.storage \in {JSStr(<<"l","o","c","a","l">>),
                         JSStr(<<"s","e","s","s","i","o","n">>)}
    THEN SetProp(this, "storage", [t |-> "storage", area |-> this.storage.s])
    ELSE this

\* this.onStateChange = this.onStateChange || function () {} and the same
\* for render; onStateChange is also a method of the prototype.
DefaultCallbacks(this) ==
    LET own == GetProp(this, "onStateChange")
        osc == IF "onStateChange" \notin DOMAIN this
               THEN JSFun("Component.prototype.onStateChange")
               ELSE IF Truthy(own) THEN own ELSE JSFun("noop")
        render == IF Truthy(GetProp(this, "render")) THEN GetProp(this, "render")
                  ELSE JSFun("noop")
    IN SetProp(SetProp(this, "onStateChange", osc), "render", render)

\* classList.add(name) unless the element has the class.
AddNameClass(this, elems) ==
    IF Truthy(this.element)
    THEN [elems EXCEPT ![this.element.id].classList = @ \cup {JSToString(this.name)}]
    ELSE elems

\* new Component(context): the instance and the elements after it, or the
\* exception thrown.
Component(context, dci, elems) ==
    LET merged == ObjectAssign(Defaults(context, dci), JSObj(context))
        config == getConfigAttribute(merged, elems)
        configured == ObjectAssign(merged, config.value)
        this == DefaultCallbacks(initStorage(configured))
    IN IF config.threw
       THEN [threw |-> TRUE, this |-> EmptyObject, elements |-> elems]
       ELSE [threw |-> FALSE, this |-> this, elements |-> AddNameClass(this, elems)]

-----------------------------------------------------------------------------
(* Incoming WebSocket frames. *)

\* A text frame is given by what JSON.parse makes of it.
TextFrame(valid, value) ==
    [type |-> "string", valid |-> valid, value |-> value]

payloadX == JSStr(<<"x">>)

Frames ==
    [binary |-> [type |-> "binary", valid |-> FALSE, value |-> JSUndefined],
     garbage |-> TextFrame(FALSE, JSUndefined),
     null |-> TextFrame(TRUE, JSNull),
     channel |-> TextFrame(TRUE, JSObj([channel |-> JSStr(feed42),
                                        data |-> payloadX])),
     event |-> TextFrame(TRUE, JSObj([event |-> JSStr(feed42),
                                      data |-> payloadX])),
     both |-> TextFrame(TRUE, JSObj([channel |-> JSStr(feed42),
                                     event |-> JSStr(wssDisconnect),
                                     data |-> payloadX])),
     falsy |-> TextFrame(TRUE, JSObj([channel |-> JSStr(<<>>),
                                      event |-> JSStr(feed42),
                                      data |-> payloadX])),
     number |-> TextFrame(TRUE, JSNum(42)),
     empty |-> TextFrame(TRUE, JSObj(EmptyObject))]

FrameIds == DOMAIN Frames

\* JSON.parse(e.data): the value, or a SyntaxError.
JSONparse(frame) ==
    [ok |-> frame.valid, value |-> IF frame.valid THEN frame.value ELSE JSUndefined]

\* datum.key for a parsed value: a TypeError on null, undefined on any
\* other value that is no object.
Member(v, key) == IF v.t = "object" THEN GetProp(v.fields, key) ELSE JSUndefined

-----------------------------------------------------------------------------
(* What a step leaves in the observation variables. *)

Op(name, socket, eventName, arg) ==
    [name |-> name, socket |-> socket, eventName |-> eventName, arg |-> arg]

\* A step that invokes nothing, throws nothing and has no side effect.
Quiet ==
    [emitted |-> <<>>, thrown |-> "none", said |-> <<>>, dispatched |-> <<>>,
     scheduled |-> <<>>, unregistered |-> <<>>, returned |-> JSUndefined,
     domEvents |-> <<>>, notified |-> <<>>]

Observe(o, r, fx) ==
    /\ op' = o
    /\ calls' = r.calls
    /\ emitted' = fx.emitted
    /\ thrown' = fx.thrown
    /\ said' = fx.said
    /\ dispatched' = fx.dispatched
    /\ scheduled' = fx.scheduled
    /\ unregistered' = fx.unregistered
    /\ returned' = fx.returned
    /\ domEvents' = fx.domEvents
    /\ notified' = fx.notified

Exception(r) == IF r.threw THEN "Error" ELSE "none"

Emission(eventName, data) == [eventName |-> eventName, data |-> data]

Init ==
    /\ kind \in {"Dispatcher", "Deck"}
    /\ state = IF kind = "Deck" THEN DeckState ELSE DispatcherState
    /\ wss = 0
    /\ sockets = <<>>
    /\ events = <<>>
    /\ timers = <<>>
    /\ pendingClose = 0
    /\ disconnectCalled = FALSE
    /\ outbox = <<>>
    /\ op = Op("constructor", 0, <<>>, "")
    /\ calls = <<>>
    /\ emitted = <<>>
    /\ thrown = "none"
    /\ said = <<>>
    /\ dispatched = IF kind = "Deck" THEN <<"deck.ready">> ELSE <<>>
    /\ scheduled = <<>>
    /\ unregistered = <<>>
    /\ returned = JSUndefined
    /\ domEvents = <<>>
    /\ notified = <<>>
    /\ elements = <<>>
    /\ instances = <<>>
    /\ tasks = [next |-> 1, pending |-> {}]
    /\ requested = <<>>
    /\ components = <<>>
    /\ registry = <<>>
    /\ queues = <<>>
    /\ uploads = [uploadFiles |-> <<>>, runs |-> <<>>, sent |-> <<>>,
                  uploadTarget |-> FALSE]

-----------------------------------------------------------------------------
(* The bus: calls made by components and pages. *)

\* The registrations of the entry of name, as the table holds them.
Registrations(evts, name) ==
    LET i == EventIndex(evts, name)
    IN IF i = 0 THEN <<>>
       ELSE [k \in 1..Len(evts[i].callbacks) |->
                [eventName |-> name, callback |-> evts[i].callbacks[k]]]

On(name, callback) ==
    /\ pendingClose = 0
    /\ events' = on(events, name, callback)
    /\ Observe(Op("on", 0, name, callback), NoResult, Quiet)
    /\ UNCHANGED <<compVars, kind, outbox, connVars>>

Off(name, callback) ==
    /\ pendingClose = 0
    /\ events' = off(events, name, callback)
    /\ Observe(Op("off", 0, name, callback), NoResult,
               [Quiet EXCEPT !.unregistered =
                    IF off(events, name, callback) = events THEN <<>>
                    ELSE <<[eventName |-> name, callback |-> callback]>>])
    /\ UNCHANGED <<compVars, kind, outbox, connVars>>

DestroyEvent(name) ==
    /\ pendingClose = 0
    /\ events' = destroyEvent(events, name)
    /\ Observe(Op("destroyEvent", 0, name, ""), NoResult,
               [Quiet EXCEPT !.unregistered = Registrations(events, name)])
    /\ UNCHANGED <<compVars, kind, outbox, connVars>>

Emit(name, data) ==
    /\ pendingClose = 0
    /\ LET r == emit(events, JSStr(name), data)
       IN Observe(Op("emit", 0, name, ""), r,
                  [Quiet EXCEPT !.emitted = <<Emission(JSStr(name), data)>>,
                                !.thrown = Exception(r)])
    /\ UNCHANGED <<compVars, kind, outbox, connVars, events>>

-----------------------------------------------------------------------------
(* The transport: connect, disconnect and the socket's handlers. *)

\* connect(), called by the page.
Connect ==
    /\ pendingClose = 0
    /\ Len(sockets) < MaxSockets
    /\ sockets' = Append(sockets, CONNECTING)
    /\ wss' = Len(sockets) + 1
    /\ Observe(Op("connect", Len(sockets) + 1, <<>>, ""), NoResult, Quiet)
    /\ UNCHANGED <<compVars, kind, outbox, state, events, timers, pendingClose, disconnectCalled>>

\* The reconnect timer fires: () => { this.connect() }.  Timers armed with
\* equal delays fire in the order they were armed.
TimerFire ==
    /\ pendingClose = 0
    /\ Len(timers) > 0
    /\ Len(sockets) < MaxSockets
    /\ timers' = Tail(timers)
    /\ sockets' = Append(sockets, CONNECTING)
    /\ wss' = Len(sockets) + 1
    /\ Observe(Op("timer", Len(sockets) + 1, <<>>, ""), NoResult, Quiet)
    /\ UNCHANGED <<compVars, kind, outbox, state, events, pendingClose, disconnectCalled>>

\* disconnect().  With this.wss null both sides of the comparison are
\* undefined, so the branch is taken and this.wss.close() is a TypeError.
Disconnect ==
    /\ pendingClose = 0
    /\ disconnectCalled' = TRUE
    /\ IF wss = 0 \/ sockets[wss] = OPEN
       THEN LET a == AssignState("reconnection", JSBool(FALSE))
            IN /\ state' = a.state
               /\ sockets' = IF a.r.threw \/ wss = 0 THEN sockets
                             ELSE close(sockets, wss)
               /\ Observe(Op("disconnect", wss, <<>>, ""), a.r,
                          [Quiet EXCEPT
                              !.emitted = a.emitted,
                              !.thrown = IF a.r.threw THEN "Error"
                                         ELSE IF wss = 0 THEN "TypeError"
                                         ELSE "none"])
       ELSE /\ UNCHANGED <<state, sockets>>
            /\ Observe(Op("disconnect", wss, <<>>, ""), NoResult, Quiet)
    /\ UNCHANGED <<compVars, kind, outbox, wss, events, timers, pendingClose>>

\* The open event of socket s: onopen.
SockOpen(s) ==
    /\ pendingClose = 0
    /\ sockets[s] = CONNECTING
    /\ sockets' = [sockets EXCEPT ![s] = OPEN]
    /\ LET r == emit(events, JSStr(wssConnect), JSUndefined)
       IN Observe(Op("onopen", s, <<>>, ""), r,
                  [Quiet EXCEPT
                      !.emitted = <<Emission(JSStr(wssConnect), JSUndefined)>>,
                      !.thrown = Exception(r),
                      !.dispatched = <<"deck.wss.open">>])
    /\ UNCHANGED <<compVars, kind, outbox, state, wss, events, timers, pendingClose,
                   disconnectCalled>>

\* Socket s fails: its readyState becomes CLOSED and its error event is
\* fired; its close event follows in the same task (pendingClose).
SockError(s) ==
    /\ pendingClose = 0
    /\ sockets[s] \in {CONNECTING, OPEN, CLOSING}
    /\ LET socks == [sockets EXCEPT ![s] = CLOSED]
           r == emit(events, JSStr(wssDisconnect), JSUndefined)
       IN /\ sockets' = IF r.threw THEN socks ELSE close(socks, wss)
          /\ Observe(Op("onerror", s, <<>>, ""), r,
                     [Quiet EXCEPT
                         !.emitted = <<Emission(JSStr(wssDisconnect), JSUndefined)>>,
                         !.thrown = Exception(r),
                         !.dispatched = <<"deck.wss.error">>])
    /\ pendingClose' = s
    /\ UNCHANGED <<compVars, kind, outbox, state, wss, events, timers, disconnectCalled>>

\* The close event of socket s: onclose.  The socket is CLOSED when its
\* close event is fired.
SockClose(s) ==
    /\ \/ pendingClose = s
       \/ pendingClose = 0 /\ sockets[s] \in {CONNECTING, OPEN, CLOSING}
    /\ LET socks == [sockets EXCEPT ![s] = CLOSED]
           r == emit(events, JSStr(wssDisconnect), JSUndefined)
           arm == /\ ~r.threw
                  /\ Truthy(GetProp(state, "reconnection"))
                  /\ (wss = 0 \/ socks[wss] = CLOSED)
           armed == IF arm THEN <<setTimeout(ThisReconnectionDelay(kind))>>
                    ELSE <<>>
       IN /\ sockets' = socks
          /\ timers' = timers \o armed
          /\ Observe(Op("onclose", s, <<>>, ""), r,
                     [Quiet EXCEPT
                         !.emitted = <<Emission(JSStr(wssDisconnect), JSUndefined)>>,
                         !.thrown = Exception(r),
                         !.dispatched = <<"deck.wss.close">>,
                         !.scheduled = armed])
    /\ pendingClose' = 0
    /\ UNCHANGED <<compVars, kind, outbox, state, wss, events, disconnectCalled>>

\* A message event of socket s: onmessage.  Whatever is thrown inside the
\* try block (by JSON.parse, by reading a property of null, by a
\* subscriber) ends in the catch block, which calls this.say.
SockMessage(s, id) ==
    /\ pendingClose = 0
    /\ sockets[s] = OPEN
    /\ LET frame == Frames[id]
           parsed == JSONparse(frame)
           datum == parsed.value
           typeError == parsed.ok /\ datum.t = "null"
           routed == parsed.ok /\ ~typeError
           byChannel == routed /\ Truthy(Member(datum, "channel"))
           eventName == IF byChannel THEN Member(datum, "channel")
                        ELSE Member(datum, "event")
           data == IF byChannel THEN datum ELSE Member(datum, "data")
           r == IF routed THEN emit(events, eventName, data) ELSE NoResult
           caught == ~parsed.ok \/ typeError \/ r.threw
           canSay == "say" \in Methods(kind)
       IN IF frame.type = "string"
          THEN Observe(Op("onmessage", s, <<>>, id), r,
                       [Quiet EXCEPT
                           !.emitted = IF routed
                                       THEN <<Emission(eventName, data)>>
                                       ELSE <<>>,
                           !.thrown = IF caught /\ ~canSay THEN "TypeError"
                                      ELSE "none",
                           !.said = IF caught /\ canSay
                                    THEN <<notification("Unknown signal", "danger")>>
                                    ELSE <<>>])
          ELSE Observe(Op("onmessage", s, <<>>, id), NoResult, Quiet)
    /\ UNCHANGED <<compVars, kind, outbox, connVars, events>>

\* What the page sends.
Outgoing ==
    [text |-> JSStr(<<"a", "\"", "b">>),
     number |-> JSNum(42)]

\* send(data), called by the page.
Send(id) ==
    /\ pendingClose = 0
    /\ Len(outbox) < MaxSends
    /\ outbox' = send(sockets, wss, outbox, Outgoing[id])
    /\ Observe(Op("send", wss, <<>>, id), NoResult, Quiet)
    /\ UNCHANGED <<compVars, kind, connVars, events>>

\* isConnected(), called by the page.
IsConnected ==
    /\ pendingClose = 0
    /\ LET c == isConnected(sockets, wss)
       IN Observe(Op("isConnected", wss, <<>>, ""), NoResult,
                  [Quiet EXCEPT !.returned = c.value,
                                !.thrown = IF c.threw THEN "TypeError" ELSE "none"])
    /\ UNCHANGED <<compVars, kind, outbox, connVars, events>>

-----------------------------------------------------------------------------
(* Components: construction. *)

\* The component name the page's constructors pass in the context.
drop == <<"d","r","o","p">>

\* The configuration strings the page's elements carry.
AttrStrings ==
    [list |-> <<"a",":","1",";","b",":","t","r","u","e",";","c",":","x",",","y">>,
     spaced |-> <<" ","a"," ",":"," ","7"," ",";"," ","k",":","F","A","L","S","E">>,
     colon |-> <<"u",":","x",":","y">>,
     nocolon |-> <<"a",":","1",";","b">>,
     ident |-> <<"d","c","i",":","z">>,
     blank |-> <<" ">>]

\* The options the page passes.
Options ==
    [none |-> EmptyObject,
     some |-> [a |-> JSStr(<<"o">>), debug |-> JSBool(TRUE)],
     ident |-> [dci |-> JSStr(<<"o">>)]]

\* What Math.random().toString(36).substring(2, 9) can give.
FreshIds == {<<"g","1">>, <<"g","2">>}

ElementRef(id) == [t |-> "element", id |-> id]
DeckRef == [t |-> "deck"]
InstanceRef(id, dci) == [t |-> "instance", id |-> id, generated |-> dci]

\* An element of the page: where names the attribute that carries the
\* configuration string ("plain": the component name, "data": data-name,
\* "bare": no attribute).
NewElement(tag, where, attrId) ==
    [tag |-> tag,
     attributes |-> CASE where = "plain" ->
                             <<[name |-> drop, value |-> AttrStrings[attrId]]>>
                      [] where = "data" ->
                             <<[name |-> <<"d","a","t","a","-">> \o drop,
                                value |-> AttrStrings[attrId]]>>
                      [] OTHER -> <<>>,
     classList |-> {},
     open |-> FALSE,
     listeners |-> <<>>]

\* new Component({name, element, deck, ...options}) on a new element of the
\* page, or on none.
Construct(where, attrId, optId, withDeck, dci) ==
    /\ Len(instances) < MaxInstances
    /\ Len(elements) < MaxInstances
    /\ LET elems == IF where = "none" THEN elements
                    ELSE Append(elements, NewElement("div", where, attrId))
           context == Options[optId] @@
                      [name |-> JSStr(drop),
                       element |-> IF where = "none" THEN JSNull
                                   ELSE ElementRef(Len(elems)),
                       deck |-> IF withDeck THEN DeckRef ELSE JSNull]
           c == Component(context, dci, elems)
       IN /\ elements' = c.elements
          /\ instances' = IF c.threw THEN instances ELSE Append(instances, c.this)
          /\ Observe(Op("new Component",
                        IF where = "none" THEN 0 ELSE Len(elems), <<>>, optId),
                     NoResult,
                     [Quiet EXCEPT
                         !.thrown = IF c.threw THEN "TypeError" ELSE "none",
                         !.returned = IF c.threw THEN JSUndefined
                                      ELSE InstanceRef(Len(instances) + 1, dci)])
    /\ UNCHANGED <<tasks, auxVars, kind, outbox, connVars, events>>

-----------------------------------------------------------------------------
(* Components: state kept on the deck. *)

\* The callback initState registers for the i-th instance:
\* (newState) => { if (newState[this.stateKey] !== undefined) ... }.
Subscribers == <<"stateChange#1", "stateChange#2", "stateChange#3", "stateChange#4">>

\* The property key a value is used as.
PropertyKey(v) == Intern(JSToString(v))

\* Deck.getState(key).
getState(st, key) == GetProp(st, PropertyKey(key))

RECURSIVE DeliverToAll(_, _)
\* A delivery in which every subscribed instance merges what was written,
\* whatever the key it was written under.
DeliverToAll(insts, cs) ==
    IF cs = <<>> THEN [instances |-> insts, notified |-> <<>>]
    ELSE LET i == IndexOf(Subscribers, Head(cs).callback)
             data == Head(cs).data.fields
             written == data[CHOOSE key \in DOMAIN data : TRUE]
         IN IF i = 0 \/ i > Len(insts) THEN DeliverToAll(insts, Tail(cs))
            ELSE LET merged == [insts EXCEPT
                                   ![i].state = JSObj(ObjectAssign(@.fields, written))]
                     rest == DeliverToAll(merged, Tail(cs))
                 IN [instances |-> rest.instances,
                     notified |-> <<i>> \o rest.notified]

RECURSIVE Deliver(_, _)
\* The effect of the callbacks a stateChange emission invoked, in order: an
\* instance whose key is in newState merges its slice into its state and
\* calls handleStateChange (onStateChange).
Deliver(insts, cs) ==
    IF cs = <<>> THEN [instances |-> insts, notified |-> <<>>]
    ELSE LET i == IndexOf(Subscribers, Head(cs).callback)
         IN IF i = 0 \/ i > Len(insts) THEN Deliver(insts, Tail(cs))
            ELSE LET slice == Member(Head(cs).data, PropertyKey(insts[i].stateKey))
                     merged == [insts EXCEPT
                                   ![i].state = JSObj(ObjectAssign(@.fields, slice))]
                     rest == Deliver(merged, Tail(cs))
                 IN IF slice # JSUndefined
                    THEN [instances |-> rest.instances,
                          notified |-> <<i>> \o rest.notified]
                    ELSE Deliver(insts, Tail(cs))

\* The states the page writes.
Partials ==
    [one |-> JSObj([count |-> JSNum(1)]),
     two |-> JSObj([count |-> JSNum(2), flag |-> JSBool(TRUE)])]

\* initState() of the i-th instance.
InitState(i) ==
    /\ RegCount(events) < MaxRegs
    /\ LET this == instances[i]
           initialState == getState(state, this.stateKey)
           seed == IF Truthy(initialState) THEN initialState ELSE JSObj(EmptyObject)
       IN IF Truthy(this.deck)
          THEN /\ instances' = [instances EXCEPT
                                   ![i].state = JSObj(ObjectAssign(EmptyObject, seed))]
               /\ events' = on(events, stateChange, Subscribers[i])
          ELSE UNCHANGED <<instances, events>>
    /\ Observe(Op("initState", i, <<>>, ""), NoResult, Quiet)
    /\ UNCHANGED <<elements, tasks, auxVars, kind, outbox, connVars>>

\* Deck.setState(key, value), with what the subscribers then do.
SetState(o, key, value) ==
    LET a == AssignState(PropertyKey(key), value)
        d == Deliver(instances, a.r.calls)
    IN /\ state' = a.state
       /\ instances' = d.instances
       /\ Observe(o, a.r, [Quiet EXCEPT !.emitted = a.emitted,
                                        !.thrown = Exception(a.r),
                                        !.notified = d.notified])

\* updateState(newState) of the i-th instance.
UpdateState(i, id) ==
    /\ LET this == instances[i]
           updatedState == JSObj(ObjectAssign(this.state.fields, Partials[id]))
       IN IF Truthy(this.deck)
          THEN SetState(Op("updateState", i, <<>>, id), this.stateKey, updatedState)
          ELSE /\ UNCHANGED <<state, instances>>
               /\ Observe(Op("updateState", i, <<>>, id), NoResult, Quiet)
    /\ UNCHANGED <<elements, tasks, auxVars, kind, outbox, wss, sockets, timers,
                   pendingClose, disconnectCalled, events>>

\* deck.setState(key, value), called by the page with the key of the i-th
\* instance.
PageSetState(i, id) ==
    /\ SetState(Op("setState", i, <<>>, id), instances[i].stateKey, Partials[id])
    /\ UNCHANGED <<elements, tasks, auxVars, kind, outbox, wss, sockets, timers,
                   pendingClose, disconnectCalled, events>>

-----------------------------------------------------------------------------
(* Components: the timer slot. *)

\* The handlers and delays the page passes.
Handlers == {"handlerA", "handlerB"}
Delays == {10, 100}

\* window.setTimeout(handler, ms) called on behalf of the i-th instance: the
\* timer table afterwards.  slot tells whether the id is kept in
\* this.timeout.
Arm(ts, handler, ms, i, slot) ==
    [next |-> ts.next + 1,
     pending |-> ts.pending \cup {[id |-> ts.next, handler |-> handler, ms |-> ms,
                                   owner |-> i, slot |-> slot]}]

\* A pending timer can expire unless a timer armed before it with no longer
\* a delay is still pending.
Due(ts, t) ==
    /\ t \in ts.pending
    /\ \A u \in ts.pending : ~(u.id < t.id /\ u.ms <= t.ms)

\* A clearTimeout that cancels nothing.
clearNothing(pending, id) == pending

\* clearTimeout(id): the pending timers afterwards; an id that is not the
\* id of a pending timer (undefined, an expired timer) cancels nothing.
clearTimeout(pending, id) == {t \in pending : JSNum(t.id) # id}

\* setTimeout(handler, timeout) of the i-th instance: clears the timer in
\* the slot and puts a new one in it.
SetTimeout(i, handler, ms) ==
    /\ tasks.next <= MaxTimers
    /\ tasks' = Arm([tasks EXCEPT
                        !.pending = clearTimeout(@, instances[i].timeout)],
                    handler, ms, i, TRUE)
    /\ instances' = [instances EXCEPT ![i].timeout = JSNum(tasks.next)]
    /\ Observe(Op("setTimeout", i, <<>>, handler), NoResult, Quiet)
    /\ UNCHANGED <<elements, auxVars, kind, outbox, connVars, events>>

\* A pending timer expires and its handler runs.
Expire(t) ==
    /\ Due(tasks, t)
    /\ t.handler \in Handlers
    /\ tasks' = [tasks EXCEPT !.pending = @ \ {t}]
    /\ Observe(Op("timeout", t.owner, <<>>, t.handler), NoResult, Quiet)
    /\ UNCHANGED <<elements, instances, auxVars, kind, outbox, connVars,
                   events>>

-----------------------------------------------------------------------------
(* Components: DOM events; Modal and Offcanvas. *)

beforeshow == <<"b","e","f","o","r","e","s","h","o","w">>
shown == <<"s","h","o","w","n">>
beforehide == <<"b","e","f","o","r","e","h","i","d","e">>
hidden == <<"h","i","d","d","e","n">>
modal == <<"m","o","d","a","l">>
offcanvas == <<"o","f","f","c","a","n","v","a","s">>

\* What the listeners of the page do with an event.
PageHandlers == {"preventDefault", "ignore"}

\* The details the page passes to dispatchEvent.
Details == [empty |-> JSObj(EmptyObject), null |-> JSNull]

\* EventTarget.dispatchEvent(event) for a cancelable event: false when a
\* listener of the event's type called preventDefault.
defaultPrevented(el, type) ==
    \E k \in 1..Len(el.listeners) :
        el.listeners[k].type = type /\ el.listeners[k].handler = "preventDefault"

DomEvent(type, target, isCustom, cancelled) ==
    [type |-> type, target |-> target, custom |-> isCustom, cancelled |-> cancelled]

\* A dispatchEvent that publishes on the deck whether or not a listener
\* cancelled the event.
dispatchEventThenPublish(this, elems, evts, eventName, detail, isCustom, context) ==
    IF ~Truthy(context)
    THEN [returned |-> JSUndefined, domEvents |-> <<>>, emitted |-> <<>>,
          r |-> NoResult]
    ELSE LET cancelled == defaultPrevented(elems[context.id], eventName)
             r == IF Truthy(GetProp(this, "deck"))
                  THEN emit(evts, JSStr(eventName), detail) ELSE NoResult
         IN [returned |-> JSBool(~cancelled),
             domEvents |-> <<DomEvent(eventName, context.id, isCustom, cancelled)>>,
             emitted |-> IF Truthy(GetProp(this, "deck"))
                         THEN <<Emission(JSStr(eventName), detail)>> ELSE <<>>,
             r |-> r]

\* dispatchEvent(eventName, detail, isCustom, context): what it returns, the
\* DOM event it fires, and what it publishes on the deck.  An exception of
\* a subscriber leaves it (r.threw) and nothing is returned.
dispatchEvent(this, elems, evts, eventName, detail, isCustom, context) ==
    IF ~Truthy(context)
    THEN [returned |-> JSUndefined, domEvents |-> <<>>, emitted |-> <<>>,
          r |-> NoResult]
    ELSE LET cancelled == defaultPrevented(elems[context.id], eventName)
             fired == <<DomEvent(eventName, context.id, isCustom, cancelled)>>
             r == emit(evts, JSStr(eventName), detail)
         IN IF cancelled
            THEN [returned |-> JSBool(FALSE), domEvents |-> fired,
                  emitted |-> <<>>, r |-> NoResult]
            ELSE IF Truthy(GetProp(this, "deck"))
            THEN [returned |-> IF r.threw THEN JSUndefined ELSE JSBool(TRUE),
                  domEvents |-> fired,
                  emitted |-> <<Emission(JSStr(eventName), detail)>>, r |-> r]
            ELSE [returned |-> JSBool(TRUE), domEvents |-> fired,
                  emitted |-> <<>>, r |-> NoResult]

\* Two dispatchEvent calls in sequence; the second is not made when the
\* first threw.
ThenDispatch(d1, d2) ==
    IF d1.r.threw THEN d1
    ELSE [returned |-> d2.returned, domEvents |-> d1.domEvents \o d2.domEvents,
          emitted |-> d1.emitted \o d2.emitted, r |-> AndThen(d1.r, d2.r)]

\* The class of an instance.
Instantiate(cls, this) == SetProp(this, "__proto__", JSFun(cls))
ClassOf(this) == GetProp(this, "__proto__")

AddListener(elems, e, type, handler) ==
    [elems EXCEPT ![e].listeners = Append(@, [type |-> type, handler |-> handler])]

\* The rest of the Offcanvas constructor after super(context) returned c:
\* #initEvents adds a click listener on document when bgClose is set.
OffcanvasInitEvents(c, element) ==
    IF c.threw THEN [threw |-> "TypeError", this |-> c.this, elements |-> c.elements]
    ELSE [threw |-> "none",
          this |-> Instantiate("Offcanvas", c.this),
          elements |-> IF Truthy(c.this.bgClose)
                       THEN AddListener(c.elements, element.id, <<"c","l","i","c","k">>,
                                        "Offcanvas.documentClick")
                       ELSE c.elements]

\* new Offcanvas(element, options, deck) on a dialog element: the instance
\* and the elements afterwards.
Offcanvas(element, deck, dci, elems) ==
    OffcanvasInitEvents(
        Component([name |-> JSStr(offcanvas), element |-> element, deck |-> deck,
                   overlay |-> JSBool(FALSE), flip |-> JSBool(FALSE),
                   bgClose |-> JSBool(TRUE)], dci, elems),
        element)

\* The elements after #init() and the listeners #initEvents() adds before
\* it fails: the transition class, the cancel and the click listener.
ModalInit(elems, e) ==
    AddListener(
        AddListener(
            [elems EXCEPT
                ![e].classList =
                    @ \cup {<<"m","o","d","a","l","-","s","l","i","d","e","-",
                              "c","e","n","t","e","r">>}],
            e, <<"c","a","n","c","e","l">>, "Modal.cancel"),
        e, <<"c","l","i","c","k">>, "Modal.click")

\* The rest of the Modal constructor after super(context) returned c:
\* #initEvents reads the variable el, which is a ReferenceError unless the
\* page defines a global of that name (globalEl).
ModalInitEvents(c, element, globalEl) ==
    IF c.threw
    THEN [threw |-> "TypeError", this |-> c.this, elements |-> c.elements]
    ELSE IF ~globalEl
    THEN [threw |-> "ReferenceError", this |-> EmptyObject,
          elements |-> ModalInit(c.elements, element.id)]
    ELSE [threw |-> "none", this |-> Instantiate("Modal", c.this),
          elements |-> ModalInit(c.elements, element.id)]

\* new Modal(element, options, deck): an element that is no dialog is an
\* Error before anything is done.
Modal(element, deck, dci, elems, globalEl) ==
    IF elems[element.id].tag # "dialog"
    THEN [threw |-> "Error", this |-> EmptyObject, elements |-> elems]
    ELSE ModalInitEvents(
             Component([name |-> JSStr(modal), element |-> element, deck |-> deck],
                       dci, elems),
             element, globalEl)

\* The page holds what the constructor c of class cls left on element n.
Returned(c, cls, n, dci) ==
    /\ elements' = c.elements
    /\ instances' = IF c.threw # "none" THEN instances
                    ELSE Append(instances, c.this)
    /\ Observe(Op(cls, n, <<>>, ""), NoResult,
               [Quiet EXCEPT
                   !.thrown = c.threw,
                   !.returned = IF c.threw # "none" THEN JSUndefined
                                ELSE InstanceRef(Len(instances) + 1, dci)])

\* The page constructs a Modal on a new element.
ConstructModal(tag, withDeck, globalEl, dci) ==
    /\ Len(instances) < MaxDialogs
    /\ Len(elements) < MaxDialogs
    /\ Returned(Modal(ElementRef(Len(elements) + 1),
                      IF withDeck THEN DeckRef ELSE JSNull, dci,
                      Append(elements, NewElement(tag, "bare", "blank")),
                      globalEl),
                "new Modal", Len(elements) + 1, dci)
    /\ UNCHANGED <<tasks, auxVars, kind, outbox, connVars, events>>

\* The page constructs an Offcanvas on a new dialog element.
ConstructOffcanvas(withDeck, dci) ==
    /\ Len(instances) < MaxDialogs
    /\ Len(elements) < MaxDialogs
    /\ Returned(Offcanvas(ElementRef(Len(elements) + 1),
                          IF withDeck THEN DeckRef ELSE JSNull, dci,
                          Append(elements, NewElement("dialog", "bare", "blank"))),
                "new Offcanvas", Len(elements) + 1, dci)
    /\ UNCHANGED <<tasks, auxVars, kind, outbox, connVars, events>>

\* The page adds a listener to an element.
Listen(e, type, handler) ==
    /\ Cardinality({k \in 1..Len(elements[e].listeners) :
                       elements[e].listeners[k].handler \in PageHandlers}) < MaxListeners
    /\ elements' = AddListener(elements, e, type, handler)
    /\ Observe(Op("addEventListener", e, type, handler), NoResult, Quiet)
    /\ UNCHANGED <<instances, tasks, auxVars, kind, outbox, connVars, events>>

\* instance.dispatchEvent(eventName, detail, isCustom), called by the page
\* or by a subclass.
DispatchEvent(i, eventName, detailId, isCustom) ==
    /\ LET this == instances[i]
           d == dispatchEvent(this, elements, events, eventName, Details[detailId],
                              isCustom, this.element)
       IN Observe(Op("dispatchEvent", i, eventName, detailId), d.r,
                  [Quiet EXCEPT !.returned = d.returned,
                                !.domEvents = d.domEvents,
                                !.emitted = d.emitted,
                                !.thrown = Exception(d.r)])
    /\ UNCHANGED <<compVars, kind, outbox, connVars, events>>

\* open() of a Modal or an Offcanvas: the Modal shows the dialog at once,
\* the Offcanvas from a timer 100 ms later.
Open(i) ==
    /\ ClassOf(instances[i]) \in {JSFun("Modal"), JSFun("Offcanvas")}
    /\ LET this == instances[i]
           e == this.element.id
           d1 == dispatchEvent(this, elements, events, beforeshow,
                               JSObj(EmptyObject), TRUE, this.element)
           acted == ~d1.r.threw /\ ~elements[e].open
           isModal == ClassOf(this) = JSFun("Modal")
           elems == IF acted /\ isModal THEN [elements EXCEPT ![e].open = TRUE]
                    ELSE elements
           d == ThenDispatch(d1, dispatchEvent(this, elems, events, shown,
                                               JSObj(EmptyObject), TRUE, this.element))
       IN /\ acted => tasks.next <= MaxDialogTimers
          /\ elements' = elems
          /\ tasks' = IF ~acted THEN tasks
                      ELSE IF isModal THEN Arm(tasks, "Modal.focusFirst", 10, i, FALSE)
                      ELSE Arm(tasks, "Offcanvas.show", 100, i, FALSE)
          /\ requested' = IF d.r.threw THEN requested
                          ELSE (i :> "open") @@ requested
          /\ Observe(Op("open", i, <<>>, ""), d.r,
                     [Quiet EXCEPT !.domEvents = d.domEvents,
                                   !.emitted = d.emitted,
                                   !.thrown = Exception(d.r)])
    /\ UNCHANGED <<instances, deckVars, pageVars, kind, outbox, connVars, events>>

\* close() of a Modal or an Offcanvas: the Modal closes the dialog at once,
\* the Offcanvas from a timer 300 ms later.
Close(i) ==
    /\ ClassOf(instances[i]) \in {JSFun("Modal"), JSFun("Offcanvas")}
    /\ LET this == instances[i]
           e == this.element.id
           d1 == dispatchEvent(this, elements, events, beforehide,
                               JSObj(EmptyObject), TRUE, this.element)
           acted == ~d1.r.threw /\ elements[e].open
           isModal == ClassOf(this) = JSFun("Modal")
           elems == IF ~acted THEN elements
                    ELSE IF isModal THEN [elements EXCEPT ![e].open = FALSE]
                    ELSE [elements EXCEPT
                             ![e].classList = (@ \ {<<"v","i","s","i","b","l","e">>})
                                              \cup {<<"c","l","o","s","i","n","g">>}]
           d == ThenDispatch(d1, dispatchEvent(this, elems, events, hidden,
                                               JSObj(EmptyObject), TRUE, this.element))
       IN /\ acted => tasks.next <= MaxDialogTimers
          /\ elements' = elems
          /\ tasks' = IF acted /\ ~isModal
                      THEN Arm(tasks, "Offcanvas.hide", 300, i, FALSE)
                      ELSE tasks
          /\ requested' = IF d.r.threw THEN requested
                          ELSE (i :> "close") @@ requested
          /\ Observe(Op("close", i, <<>>, ""), d.r,
                     [Quiet EXCEPT !.domEvents = d.domEvents,
                                   !.emitted = d.emitted,
                                   !.thrown = Exception(d.r)])
    /\ UNCHANGED <<instances, deckVars, pageVars, kind, outbox, connVars, events>>

\* A timer armed by open() or close() expires.
ExpireDialog(t) ==
    /\ Due(tasks, t)
    /\ t.handler \notin Handlers
    /\ tasks' = [tasks EXCEPT !.pending = @ \ {t}]
    /\ LET e == instances[t.owner].element.id
       IN elements' =
              CASE t.handler = "Offcanvas.show" ->
                       [elements EXCEPT
                           ![e].open = TRUE,
                           ![e].classList = @ \cup {<<"v","i","s","i","b","l","e">>}]
                [] t.handler = "Offcanvas.hide" ->
                       [elements EXCEPT
                           ![e].open = FALSE,
                           ![e].classList = @ \ {<<"c","l","o","s","i","n","g">>}]
                [] OTHER -> elements
    /\ Observe(Op("timeout", t.owner, <<>>, t.handler), NoResult, Quiet)
    /\ UNCHANGED <<instances, auxVars, kind, outbox, connVars, events>>

-----------------------------------------------------------------------------
(* Deck: register and autoload. *)

\* The constructors main.js registers that the model has, in its order.
Registered ==
    <<[name |-> modal, class |-> "Modal"],
      [name |-> offcanvas, class |-> "Offcanvas"]>>

\* The position of the property name in an object kept in property order.
KeyIndex(obj, name) ==
    IF \E i \in 1..Len(obj) : obj[i].name = name
    THEN CHOOSE i \in 1..Len(obj) : obj[i].name = name
    ELSE 0

\* obj[name] = value: an own property keeps its place, a new one goes last.
Assign(obj, entry) ==
    IF KeyIndex(obj, entry.name) # 0
    THEN [obj EXCEPT ![KeyIndex(obj, entry.name)] = entry]
    ELSE Append(obj, entry)

RECURSIVE register(_, _)
\* register(components): a factory per name.
register(comps, new) ==
    IF Len(new) = 0 THEN comps
    ELSE register(Assign(comps, Head(new)), Tail(new))

\* The dci of the n-th instance of a run: Math.random() gives every
\* instance another one.
Generated(n) == <<"g">> \o NatToString(n)

\* An element of the page marked for the component name by its class, by
\* the attribute name or by the attribute data-name.
PageElement(tag, name, how) ==
    [tag |-> tag,
     attributes |-> CASE how = "attribute" -> <<[name |-> name, value |-> <<>>]>>
                      [] how = "data" -> <<[name |-> <<"d","a","t","a","-">> \o name,
                                            value |-> <<>>]>>
                      [] OTHER -> <<>>,
     classList |-> IF how = "class" THEN {name} ELSE {},
     open |-> FALSE,
     listeners |-> <<>>]

\* The selector .name, [name], [data-name].
Selected(el, name) ==
    \/ name \in el.classList
    \/ hasAttribute(el, name)
    \/ hasAttribute(el, <<"d","a","t","a","-">> \o name)

\* context.querySelectorAll(selector): the elements in document order.
querySelectorAll(elems, name) ==
    SelectSeq([e \in 1..Len(elems) |-> e], LAMBDA e : Selected(elems[e], name))

\* The filters the page passes to autoload.
Filters ==
    [none |-> JSUndefined,
     modalList |-> JSArr(<<JSStr(modal)>>),
     offcanvasList |-> JSArr(<<JSStr(offcanvas)>>),
     modalName |-> JSStr(modal)]

\* filter instanceof Array ? filter : Object.keys(this.components)
Autoloaded(comps, filter) ==
    IF filter.t = "array" THEN [i \in 1..Len(filter.items) |-> filter.items[i].s]
    ELSE [i \in 1..Len(comps) |-> comps[i].name]

\* this.components[name](element): the factory calls the constructor with
\* the element, no options and the deck; a name that is not registered is
\* a TypeError.
Factory(comps, name, e, dci, elems, globalEl) ==
    IF KeyIndex(comps, name) = 0
    THEN [threw |-> "TypeError", this |-> EmptyObject, elements |-> elems]
    ELSE IF comps[KeyIndex(comps, name)].class = "Modal"
    THEN Modal(ElementRef(e), DeckRef, dci, elems, globalEl)
    ELSE Offcanvas(ElementRef(e), DeckRef, dci, elems)

\* element.dataset.dci = value.
SetDci(elems, e, value) ==
    [elems EXCEPT ![e].attributes =
        SelectSeq(@, LAMBDA a : a.name # <<"d","a","t","a","-","d","c","i">>)
        \o <<[name |-> <<"d","a","t","a","-","d","c","i">>, value |-> value]>>]

\* The body of the loop over the elements for the result c of the factory:
\* try { ... } catch (error) { console.error(error) }.
Loaded(st, c, e) ==
    IF c.threw # "none"
    THEN [st EXCEPT !.elements = c.elements]
    ELSE [elements |-> SetDci(c.elements, e, JSToString(c.this.dci)),
          instances |-> Append(st.instances, c.this),
          registry |-> Assign(st.registry,
                              [name |-> JSToString(c.this.dci),
                               instance |-> Len(st.instances) + 1])]

RECURSIVE LoadElements(_, _, _, _, _, _)
\* A loop over the elements without the try block: the first constructor
\* that throws ends it.
LoadElementsNoCatch(st, comps, name, found, k, globalEl) ==
    IF k > Len(found) THEN st
    ELSE IF Factory(comps, name, found[k], Generated(Len(st.instances) + 1),
                    st.elements, globalEl).threw # "none"
    THEN st
    ELSE LoadElements(
             Loaded(st,
                    Factory(comps, name, found[k],
                            Generated(Len(st.instances) + 1), st.elements, globalEl),
                    found[k]),
             comps, name, found, k + 1, globalEl)

\* elements.forEach(...) for one component name; found is the static list
\* querySelectorAll returned.
LoadElements(st, comps, name, found, k, globalEl) ==
    IF k > Len(found) THEN st
    ELSE LoadElements(
             Loaded(st,
                    Factory(comps, name, found[k],
                            Generated(Len(st.instances) + 1), st.elements, globalEl),
                    found[k]),
             comps, name, found, k + 1, globalEl)

RECURSIVE autoload(_, _, _, _, _)
\* autoload(filter): the elements, the instances and the instance table
\* after components.forEach(...) from the k-th name on.
autoload(st, comps, names, k, globalEl) ==
    IF k > Len(names) THEN st
    ELSE autoload(LoadElements(st, comps, names[k],
                               querySelectorAll(st.elements, names[k]), 1, globalEl),
                  comps, names, k + 1, globalEl)

\* The page gets another element.
AddElement(tag, name, how) ==
    /\ Len(elements) < MaxInstances
    /\ elements' = Append(elements, PageElement(tag, name, how))
    /\ Observe(Op("appendChild", Len(elements) + 1, name, how), NoResult, Quiet)
    /\ UNCHANGED <<instances, tasks, auxVars, kind, outbox, connVars, events>>

\* register({modal: Modal, offcanvas: Offcanvas}), called by the page.
RegisterComponents ==
    /\ components' = register(components, Registered)
    /\ components' # components
    /\ Observe(Op("register", 0, <<>>, ""), NoResult, Quiet)
    /\ UNCHANGED <<elements, instances, tasks, requested, registry, pageVars, kind,
                   outbox, connVars, events>>

\* The page holds what autoload left.
AutoloadDone(st, filterId, globalEl) ==
    /\ Len(st.instances) <= MaxInstances
    /\ \A e \in 1..Len(st.elements) : Len(st.elements[e].listeners) <= MaxAttached
    /\ elements' = st.elements
    /\ instances' = st.instances
    /\ registry' = st.registry
    /\ Observe(Op("autoload", IF globalEl THEN 1 ELSE 0, <<>>, filterId), NoResult,
               Quiet)

\* autoload(filter), called by the page; globalEl tells whether the page
\* has a global variable named el.
Autoload(filterId, globalEl) ==
    /\ AutoloadDone(autoload([elements |-> elements, instances |-> instances,
                              registry |-> registry],
                             components, Autoloaded(components, Filters[filterId]),
                             1, globalEl),
                    filterId, globalEl)
    /\ UNCHANGED <<tasks, requested, components, pageVars, kind, outbox, connVars,
                   events>>

-----------------------------------------------------------------------------
(* Accordion. *)

accordion == <<"a","c","c","o","r","d","i","o","n">>

\* The li elements below the accordion's element in document order, which
\* is the order of querySelectorAll('li') and getElementsByTagName("li");
\* childIndex is the position of the li among the children of its parent.
\* In "nested" the second li lies inside the first.
Layouts ==
    [closed |-> <<[open |-> FALSE, childIndex |-> 0],
                  [open |-> FALSE, childIndex |-> 1],
                  [open |-> FALSE, childIndex |-> 2]>>,
     second |-> <<[open |-> FALSE, childIndex |-> 0],
                  [open |-> TRUE, childIndex |-> 1],
                  [open |-> FALSE, childIndex |-> 2]>>,
     nested |-> <<[open |-> FALSE, childIndex |-> 0],
                  [open |-> FALSE, childIndex |-> 0],
                  [open |-> TRUE, childIndex |-> 1]>>]

\* The options the page passes to new Accordion.
AccordionOptions ==
    [none |-> EmptyObject,
     noCollapse |-> [noCollapse |-> JSBool(TRUE)],
     multiple |-> [allowMultiple |-> JSBool(TRUE)],
     both |-> [allowMultiple |-> JSBool(TRUE), noCollapse |-> JSBool(TRUE)]]

\* The indexes the page passes to open, close and toggle.
Indexes ==
    [zero |-> JSNum(0), one |-> JSNum(1), two |-> JSNum(2), three |-> JSNum(3),
     text |-> JSStr(<<"1">>), missing |-> JSUndefined]

\* Number.isInteger(v).
IsInteger(v) == v.t = "number"

\* getTab(index): the position in the list of the li that
\* getElementsByTagName("li")[index] is, 0 when it is undefined.  A string
\* that is the decimal form of an index names the same property.
getTab(items, index) ==
    CASE index.t = "number" /\ index.n \in 0..(Len(items) - 1) -> index.n + 1
      [] index.t = "string" /\ \E n \in 0..(Len(items) - 1) : index.s = NatToString(n) ->
            1 + CHOOSE n \in 0..(Len(items) - 1) : index.s = NatToString(n)
      [] OTHER -> 0

\* if (!index && !Number.isInteger(index)) return
IndexGiven(index) == Truthy(index) \/ IsInteger(index)

\* close(index).
closeItem(items, index) ==
    IF ~IndexGiven(index) \/ getTab(items, index) = 0 THEN items
    ELSE [items EXCEPT ![getTab(items, index)].open = FALSE]

\* A closeSiblings that closes nothing.
closeNoSiblings(items, index) == items

\* closeSiblings(index): close(i) for every i with i !== index.
closeSiblings(items, index) ==
    [k \in 1..Len(items) |->
        IF JSNum(k - 1) # index THEN [items[k] EXCEPT !.open = FALSE] ELSE items[k]]

\* open(index).
openItem(this, items, index) ==
    IF ~IndexGiven(index) \/ getTab(items, index) = 0 THEN items
    ELSE IF items[getTab(items, index)].open THEN items
    ELSE [(IF ~Truthy(this.allowMultiple) THEN closeSiblings(items, index) ELSE items)
             EXCEPT ![getTab(items, index)].open = TRUE]

\* getOpen(): the li.open elements.
getOpen(items) == {k \in 1..Len(items) : items[k].open}

\* toggle(index).
toggle(this, items, index) ==
    IF ~IsInteger(index) \/ getTab(items, index) = 0 THEN items
    ELSE IF items[getTab(items, index)].open
    THEN IF ~Truthy(this.noCollapse) \/ Cardinality(getOpen(items)) > 1
         THEN closeItem(items, index)
         ELSE items
    ELSE openItem(this, items, index)

\* closeAll().
closeAll(items) == [k \in 1..Len(items) |-> [items[k] EXCEPT !.open = FALSE]]

\* onClick on the title of the k-th li: toggle(getLiIndex(li)).
onClick(this, items, k) == toggle(this, items, JSNum(items[k].childIndex))

\* The rest of the Accordion constructor after super(context) returned c:
\* the click listener; _init() sets aria-expanded and max-height only.
AccordionInit(c, e) ==
    IF c.threw THEN [threw |-> "TypeError", this |-> c.this, elements |-> c.elements]
    ELSE [threw |-> "none", this |-> Instantiate("Accordion", c.this),
          elements |-> AddListener(c.elements, e, <<"c","l","i","c","k">>,
                                   "Accordion.onClick")]

\* new Accordion(element, options, deck).
Accordion(element, options, deck, dci, elems) ==
    AccordionInit(
        Component(options @@ [name |-> JSStr(accordion), element |-> element,
                              deck |-> deck, allowMultiple |-> JSBool(FALSE),
                              noCollapse |-> JSBool(FALSE)],
                  dci, elems),
        element.id)

\* The ul element of an accordion with its li elements.
AccordionElement(layoutId) ==
    [tag |-> "ul", attributes |-> <<>>, classList |-> {}, open |-> FALSE,
     listeners |-> <<>>, items |-> Layouts[layoutId]]

\* The page constructs an Accordion on a new element.
ConstructAccordion(layoutId, optId, dci) ==
    /\ Len(instances) < MaxAccordions
    /\ Len(elements) < MaxAccordions
    /\ Returned(Accordion(ElementRef(Len(elements) + 1), AccordionOptions[optId],
                          JSNull, dci, Append(elements, AccordionElement(layoutId))),
                "new Accordion", Len(elements) + 1, dci)
    /\ UNCHANGED <<tasks, auxVars, kind, outbox, connVars, events>>

\* The list of instance i becomes items.
SetItems(i, items) ==
    elements' = [elements EXCEPT ![instances[i].element.id].items = items]

\* open(index), close(index), toggle(index) and closeAll(), called by the
\* page on instance i.
AccordionOpen(i, ix) ==
    /\ SetItems(i, openItem(instances[i], elements[instances[i].element.id].items,
                            Indexes[ix]))
    /\ Observe(Op("open", i, <<>>, ix), NoResult, Quiet)
    /\ UNCHANGED <<instances, tasks, auxVars, kind, outbox, connVars, events>>

AccordionClose(i, ix) ==
    /\ SetItems(i, closeItem(elements[instances[i].element.id].items, Indexes[ix]))
    /\ Observe(Op("close", i, <<>>, ix), NoResult, Quiet)
    /\ UNCHANGED <<instances, tasks, auxVars, kind, outbox, connVars, events>>

AccordionToggle(i, ix) ==
    /\ SetItems(i, toggle(instances[i], elements[instances[i].element.id].items,
                          Indexes[ix]))
    /\ Observe(Op("toggle", i, <<>>, ix), NoResult, Quiet)
    /\ UNCHANGED <<instances, tasks, auxVars, kind, outbox, connVars, events>>

AccordionCloseAll(i) ==
    /\ SetItems(i, closeAll(elements[instances[i].element.id].items))
    /\ Observe(Op("closeAll", i, <<>>, ""), NoResult, Quiet)
    /\ UNCHANGED <<instances, tasks, auxVars, kind, outbox, connVars, events>>

\* A click on the title of the k-th li of instance i.
AccordionClick(i, k) ==
    /\ k \in 1..Len(elements[instances[i].element.id].items)
    /\ SetItems(i, onClick(instances[i], elements[instances[i].element.id].items, k))
    /\ Observe(Op("click", i, <<>>, NatToString(k)), NoResult, Quiet)
    /\ UNCHANGED <<instances, tasks, auxVars, kind, outbox, connVars, events>>

-----------------------------------------------------------------------------
(* Feed and Wire. *)

feed == <<"f","e","e","d">>
wire == <<"w","i","r","e">>
seven == <<"7">>

\* The options the page passes to new Feed and new Wire.
FeedOptions ==
    [none |-> EmptyObject,
     ident |-> [id |-> JSStr(seven)],
     live |-> [contentLive |-> JSBool(TRUE)],
     liveIdent |-> [contentLive |-> JSBool(TRUE), id |-> JSStr(seven)],
     still |-> [contentLive |-> JSBool(FALSE)]]

\* this.onDatum.bind(this) of the instance with this dci.  Every bind makes
\* a new function; the table tells them apart by position only.
onDatumOf(this) == <<"onDatum">> \o this.dci.s

\* `feed:${this.name}${this.id ? `:${this.id}` : ''}`
FeedEvent(this) ==
    <<"f","e","e","d",":">> \o JSToString(this.name)
        \o (IF Truthy(GetProp(this, "id"))
            THEN <<":">> \o JSToString(this.id) ELSE <<>>)

\* `feed:${this.name}:${this.id ? `${this.id}` : '*'}`
WireEvent(this) ==
    <<"f","e","e","d",":">> \o JSToString(this.name) \o <<":">>
        \o (IF Truthy(GetProp(this, "id")) THEN JSToString(this.id) ELSE <<"*">>)

\* `/${name}${category ? `/${category}` : ''}${id ? `/${id}` : ''}${content ? `/${content}` : ''}`
ApiEndpoint(this) ==
    LET part(key) == IF Truthy(GetProp(this, key))
                     THEN <<"/">> \o JSToString(this[key]) ELSE <<>>
    IN <<"/">> \o JSToString(this.name) \o part("category") \o part("id")
          \o part("content")

\* this.key ||= value
OrAssign(this, key, value) ==
    IF Truthy(GetProp(this, key)) THEN this ELSE SetProp(this, key, value)

\* JSON.stringify({request, type: this.name, id: this.id}): a property
\* whose value is undefined is left out.
RequestText(request, this) ==
    <<"{","\"","r","e","q","u","e","s","t","\"",":","\"">> \o request
       \o <<"\"",",","\"","t","y","p","e","\"",":">>
       \o JSONstringify(this.name).s
       \o (IF GetProp(this, "id") = JSUndefined THEN <<>>
           ELSE <<",","\"","i","d","\"",":">> \o JSONstringify(this.id).s)
       \o <<"}">>

\* The bus as a component's calls on this.deck see and change it.
Bus(evts, box) == [events |-> evts, outbox |-> box]

\* #initWebSocketEvent(): hasEvent is called without an argument, so the
\* name looked up is undefined.
initWebSocketEvent(this, evts) ==
    IF Truthy(GetProp(this, "contentLive")) /\ Truthy(GetProp(this, "wssEvent"))
    THEN IF this.deck = JSNull THEN [threw |-> TRUE, events |-> evts]
         ELSE IF ~hasEvent(evts, JSToString(JSUndefined))
              THEN [threw |-> FALSE,
                    events |-> on(evts, JSToString(this.wssEvent), onDatumOf(this))]
              ELSE [threw |-> FALSE, events |-> evts]
    ELSE [threw |-> FALSE, events |-> evts]

\* The request subscribe() and unsubscribe() send: this.deck.send(...) is a
\* TypeError without a deck.
sendRequest(this, request, socks, w, bus) ==
    IF this.deck = JSNull THEN [threw |-> TRUE, bus |-> bus]
    ELSE [threw |-> FALSE,
          bus |-> [bus EXCEPT !.outbox =
                      IF w # 0 /\ socks[w] = OPEN
                      THEN Append(@, [socket |-> w, text |-> RequestText(request, this)])
                      ELSE @]]

\* subscribe(), which the connect getter calls.
subscribe(this, socks, w, bus) ==
    LET init == initWebSocketEvent(this, bus.events)
    IN IF init.threw THEN [threw |-> TRUE, bus |-> bus]
       ELSE sendRequest(this, <<"s","u","b","s","c","r","i","b","e">>, socks, w,
                        [bus EXCEPT !.events = init.events])

\* unsubscribe(), which the disconnect getter calls.
unsubscribe(this, socks, w, bus) ==
    sendRequest(this, <<"u","n","s","u","b","s","c","r","i","b","e">>, socks, w, bus)

\* The rest of the Feed constructor after super(context) returned c: the
\* endpoint and event names, the item callbacks of the prototype, the click
\* listener and this.connect.  The observers and getData() act on the
\* document and the network only.
FeedInit(c, e, socks, w, bus) ==
    IF c.threw
    THEN [threw |-> "TypeError", this |-> c.this, elements |-> c.elements, bus |-> bus]
    ELSE LET named == OrAssign(OrAssign(c.this, "apiEndpoint", JSStr(ApiEndpoint(c.this))),
                               "wssEvent", JSStr(FeedEvent(c.this)))
             this == OrAssign(OrAssign(OrAssign(OrAssign(OrAssign(named,
                         "prependItem", JSFun("Feed.prototype.prependItem")),
                         "appendItem", JSFun("noop")),
                         "appendItems", JSFun("Feed.prototype.appendItems")),
                         "deleteItem", JSFun("noop")),
                         "actionHandler", JSFun("noop"))
             elems == AddListener(c.elements, e, <<"c","l","i","c","k">>, "Feed.onClick")
             sub == subscribe(this, socks, w, bus)
         IN [threw |-> IF sub.threw THEN "TypeError" ELSE "none",
             this |-> Instantiate("Feed", this), elements |-> elems, bus |-> sub.bus]

\* new Feed(element, options, deck).
Feed(element, options, deck, dci, elems, socks, w, bus) ==
    FeedInit(
        Component(options @@ [content |-> JSStr(<<"s","t","a","t","u","s","e","s">>),
                              feedSize |-> JSNum(10),
                              contentSelector |-> JSStr(<<".","c","a","r","d">>),
                              contentLive |-> JSBool(TRUE),
                              animated |-> JSBool(TRUE),
                              name |-> JSStr(feed), element |-> element,
                              deck |-> deck, contentSize |-> JSNum(0),
                              contentEnd |-> JSBool(FALSE),
                              isLoading |-> JSBool(FALSE)],
                  dci, elems),
        element.id, socks, w, bus)

\* The rest of the Wire constructor after super(element, options, deck)
\* returned f.
WireInit(f, socks, w) ==
    IF f.threw # "none" THEN f
    ELSE LET this == SetProp(SetProp(f.this, "wssEvent", JSStr(WireEvent(f.this))),
                             "contentLive", JSBool(TRUE))
             sub == subscribe(this, socks, w, f.bus)
         IN [threw |-> IF sub.threw THEN "TypeError" ELSE "none",
             this |-> Instantiate("Wire", this), elements |-> f.elements,
             bus |-> sub.bus]

\* new Wire(element, options, deck).
Wire(element, options, deck, dci, elems, socks, w, bus) ==
    WireInit(
        Feed(element,
             options @@ [name |-> JSStr(wire), defaultSize |-> JSNum(30),
                         content |-> JSNull, contentLive |-> JSBool(FALSE),
                         contentSelector |-> JSStr(<<".","n","e","w","s">>)],
             deck, dci, elems, socks, w, bus),
        socks, w)

\* onDatum(datum): one 500 ms timer per item of datum.data, each calling
\* prependItem(json).
onDatum(callback, datum) ==
    LET data == Member(datum, "data")
    IN IF data.t = "array"
       THEN [k \in 1..Len(data.items) |->
                [callback |-> "prependItem", of |-> callback, json |-> data.items[k],
                 delay |-> 500]]
       ELSE <<>>

RECURSIVE Flatten(_)
Flatten(seqs) == IF seqs = <<>> THEN <<>> ELSE Head(seqs) \o Flatten(Tail(seqs))

\* The state after a Feed or Wire constructor returned or threw f.
FeedReturned(f, cls, n, dci) ==
    /\ Returned(f, cls, n, dci)
    /\ events' = f.bus.events
    /\ outbox' = f.bus.outbox

\* The page constructs a Feed or a Wire on a new element.
ConstructFeed(optId, withDeck, dci) ==
    /\ pendingClose = 0
    /\ Len(instances) < MaxFeeds
    /\ Len(elements) < MaxFeeds
    /\ FeedReturned(Feed(ElementRef(Len(elements) + 1), FeedOptions[optId],
                         IF withDeck THEN DeckRef ELSE JSNull, dci,
                         Append(elements, NewElement("div", "bare", "blank")),
                         sockets, wss, Bus(events, outbox)),
                    "new Feed", Len(elements) + 1, dci)
    /\ UNCHANGED <<tasks, auxVars, kind, connVars>>

ConstructWire(optId, withDeck, dci) ==
    /\ pendingClose = 0
    /\ Len(instances) < MaxFeeds
    /\ Len(elements) < MaxFeeds
    /\ FeedReturned(Wire(ElementRef(Len(elements) + 1), FeedOptions[optId],
                         IF withDeck THEN DeckRef ELSE JSNull, dci,
                         Append(elements, NewElement("div", "bare", "blank")),
                         sockets, wss, Bus(events, outbox)),
                    "new Wire", Len(elements) + 1, dci)
    /\ UNCHANGED <<tasks, auxVars, kind, connVars>>

\* How many times the entry of name holds callback.
TimesRegistered(evts, name, callback) ==
    IF EventIndex(evts, name) = 0 THEN 0
    ELSE Len(SelectSeq(evts[EventIndex(evts, name)].callbacks,
                       LAMBDA cb : cb = callback))

\* The state after subscribe() or unsubscribe() of instance i returned or
\* threw r.
Requested(r, name, i) ==
    /\ events' = r.bus.events
    /\ outbox' = r.bus.outbox
    /\ Observe(Op(name, i, <<>>, ""), NoResult,
               [Quiet EXCEPT !.thrown = IF r.threw THEN "TypeError" ELSE "none"])

\* instance.subscribe() or instance.connect, called by the page.
FeedSubscribe(i) ==
    /\ pendingClose = 0
    /\ TimesRegistered(events, JSToString(GetProp(instances[i], "wssEvent")),
                       onDatumOf(instances[i])) <= MaxRegs
    /\ Len(outbox) <= MaxSends
    /\ Requested(subscribe(instances[i], sockets, wss, Bus(events, outbox)),
                 "subscribe", i)
    /\ UNCHANGED <<compVars, kind, connVars>>

\* instance.unsubscribe() or instance.disconnect, called by the page.
FeedUnsubscribe(i) ==
    /\ pendingClose = 0
    /\ Len(outbox) <= MaxSends
    /\ Requested(unsubscribe(instances[i], sockets, wss, Bus(events, outbox)),
                 "unsubscribe", i)
    /\ UNCHANGED <<compVars, kind, connVars>>

itemX == JSObj([id |-> JSNum(1)])
itemY == JSObj([id |-> JSNum(2)])

\* The frame {channel: name, data: [x, y]} arrives on the open socket:
\* onmessage emits it under name and every onDatum called arms its timers.
FeedMessage(name) ==
    /\ pendingClose = 0
    /\ wss # 0
    /\ sockets[wss] = OPEN
    /\ LET datum == JSObj([channel |-> JSStr(name), data |-> JSArr(<<itemX, itemY>>)])
           r == emit(events, JSStr(name), datum)
       IN Observe(Op("onmessage", wss, name, ""), r,
                  [Quiet EXCEPT
                      !.emitted = <<Emission(JSStr(name), datum)>>,
                      !.scheduled = Flatten([k \in 1..Len(r.calls) |->
                                       onDatum(r.calls[k].callback, r.calls[k].data)])])
    /\ UNCHANGED <<compVars, kind, outbox, connVars, events>>

-----------------------------------------------------------------------------
(* Uploader. *)

uploader == <<"u","p","l","o","a","d","e","r">>

\* name.split('.').pop(): what follows the last dot, the whole name when
\* it has none.
LastPart(name) ==
    LET dots == {k \in 1..Len(name) : name[k] = "."}
    IN IF dots = {} THEN name
       ELSE SubSeq(name, (CHOOSE k \in dots : \A d \in dots : d <= k) + 1, Len(name))

\* FileValidator.imageFormats, videoFormats and audioFormats.
Formats ==
    {<<"p","n","g">>, <<"j","p","g">>, <<"j","p","e","g">>, <<"w","e","b","p">>,
     <<"g","i","f">>, <<"m","p","4">>, <<"m","4","v">>, <<"w","e","b","m">>,
     <<"a","a","c">>, <<"m","p","3">>, <<"w","e","b","a">>}

isValidSize(this, file) == file.size <= this.maxSize.n

isValidType(file) == toLowerCase(LastPart(file.name)) \in Formats

\* The files a user can select or drop.
Files ==
    [png |-> [name |-> <<"a",".","p","n","g">>, size |-> 1],
     mp3 |-> [name |-> <<"b",".","m","p","3">>, size |-> 2],
     upper |-> [name |-> <<"c",".","x",".","P","N","G">>, size |-> 1],
     txt |-> [name |-> <<"d",".","t","x","t">>, size |-> 1],
     big |-> [name |-> <<"e",".","p","n","g">>, size |-> 10485761]]

Selections ==
    [one |-> <<Files.png>>,
     two |-> <<Files.upper, Files.mp3>>,
     mixed |-> <<Files.txt, Files.big, Files.png>>]

\* The options the page passes to new Uploader.
UploaderOptions ==
    [none |-> EmptyObject,
     manual |-> [autoUpload |-> JSBool(FALSE)],
     direct |-> [usePresigned |-> JSBool(FALSE)],
     limited |-> [limit |-> JSNum(1)]]

\* An element created by the component.
Created(tag) ==
    [tag |-> tag, attributes |-> <<>>, classList |-> {}, open |-> FALSE,
     listeners |-> <<>>]

\* The rest of the Uploader constructor after super(context) returned c:
\* #init() creates the file input with its change listener and listens for
\* clicks on the element (a div without the class upload-drop).
UploaderInit(c, e) ==
    IF c.threw THEN [threw |-> "TypeError", this |-> c.this, elements |-> c.elements]
    ELSE [threw |-> "none",
          this |-> Instantiate("Uploader",
                       SetProp(c.this, "input", ElementRef(Len(c.elements) + 1))),
          elements |->
              AddListener(
                  AddListener(Append(c.elements, Created("input")),
                              Len(c.elements) + 1, <<"c","h","a","n","g","e">>,
                              "Uploader.onChange"),
                  e, <<"c","l","i","c","k">>, "Uploader.chooseFile")]

\* new Uploader(element, options, deck).
Uploader(element, options, deck, dci, elems) ==
    UploaderInit(
        Component(options @@ [name |-> JSStr(uploader), element |-> element,
                              deck |-> deck, multiple |-> JSBool(FALSE),
                              autoUpload |-> JSBool(TRUE),
                              method |-> JSStr(<<"p","o","s","t">>),
                              limit |-> [t |-> "number", n |-> -1],
                              maxSize |-> JSNum(10 * 1024 * 1024),
                              usePresigned |-> JSBool(TRUE)],
                  dci, elems),
        element.id)

\* The page constructs an Uploader; declared tells whether the page has a
\* global variable uploadTarget, which post() reads.
ConstructUploader(optId, declared, dci) ==
    /\ instances = <<>>
    /\ elements = <<>>
    /\ Returned(Uploader(ElementRef(1), UploaderOptions[optId], JSNull, dci,
                         <<NewElement("div", "bare", "blank")>>),
                "new Uploader", 1, dci)
    /\ uploads' = [uploads EXCEPT !.uploadTarget = declared]
    /\ UNCHANGED <<tasks, requested, deckVars, queues, kind, outbox, connVars, events>>

\* The custom event a dispatchEvent(name, detail, true) of the uploader
\* fires on its element; it has no deck to publish on.
UploaderEvent(name) == DomEvent(name, 1, TRUE, FALSE)

error == <<"e","r","r","o","r">>
done == <<"d","o","n","e">>

\* file.status = status for the k-th entry of the upload list.
SetStatus(u, k, status) == [u EXCEPT !.uploadFiles[k].status = status]

RECURSIVE Posting(_, _, _)
\* The for loop of upload() from the head of queue on, up to the first fetch
\* it awaits.  post(f) reads uploadTarget first: where that variable is not
\* declared the ReferenceError is caught, f gets the status error and the
\* loop goes on.  Otherwise post awaits the presign request or, with
\* usePresigned false, the upload request that carries the file.
Posting(u, this, queue) ==
    IF queue = <<>> THEN [u |-> u, run |-> <<>>, events |-> <<>>]
    ELSE IF ~u.uploadTarget
    THEN LET rest == Posting(SetStatus(u, Head(queue), error), this, Tail(queue))
         IN [rest EXCEPT !.events = <<UploaderEvent(error)>> \o @]
    ELSE IF Truthy(this.usePresigned)
    THEN [u |-> u, run |-> <<[queue |-> queue, stage |-> "presign"]>>,
          events |-> <<>>]
    ELSE [u |-> [u EXCEPT !.sent = Append(@, u.uploadFiles[Head(queue)].uid)],
          run |-> <<[queue |-> queue, stage |-> "upload"]>>, events |-> <<>>]

\* this.uploadFiles.filter(f => f.status === 'ready'), as positions.
Ready(u) ==
    LET RECURSIVE From(_)
        From(k) == IF k > Len(u.uploadFiles) THEN <<>>
                   ELSE (IF u.uploadFiles[k].status = <<"r","e","a","d","y">>
                         THEN <<k>> ELSE <<>>) \o From(k + 1)
    IN From(1)

\* upload() without an argument, up to its first await.
upload(u, this) ==
    LET p == Posting(u, this, Ready(u))
    IN [u |-> [p.u EXCEPT !.runs = @ \o p.run], events |-> p.events]

RECURSIVE Loading(_, _, _, _)
\* The forEach of loadFiles from the k-th file on.
Loading(u, this, files, k) ==
    IF k > Len(files) THEN [u |-> u, events |-> <<>>]
    ELSE IF ~isValidSize(this, files[k]) \/ ~isValidType(files[k])
    THEN LET rest == Loading(u, this, files, k + 1)
         IN [rest EXCEPT !.events = <<UploaderEvent(error)>> \o @]
    ELSE Loading([u EXCEPT !.uploadFiles =
                     Append(@, [uid |-> Generated(Len(u.uploadFiles) + 1),
                                fileName |-> files[k].name,
                                size |-> files[k].size,
                                status |-> <<"r","e","a","d","y">>])],
                 this, files, k + 1)

\* loadFiles(files).
loadFiles(u, this, files) ==
    IF this.limit.n # -1 /\ Len(files) + Len(u.uploadFiles) > this.limit.n
    THEN [u |-> u, events |-> <<UploaderEvent(<<"e","x","c","e","e","d">>)>>]
    ELSE LET l == Loading(u, this, files, 1)
             changed == l.events \o <<UploaderEvent(<<"c","h","a","n","g","e">>)>>
         IN IF Truthy(this.autoUpload)
            THEN [u |-> upload(l.u, this).u,
                  events |-> changed \o upload(l.u, this).events]
            ELSE [u |-> l.u, events |-> changed]

\* The state after a handler of the uploader that left r.
Uploaded(r, name, arg) ==
    /\ Len(r.u.uploadFiles) <= MaxFiles
    /\ Len(r.u.runs) <= MaxUploads
    /\ uploads' = r.u
    /\ Observe(Op(name, 1, <<>>, arg), NoResult,
               [Quiet EXCEPT !.domEvents = r.events])

\* The change event of the file input: the user selected files.  No
\* listener vetoes the choose event.
ChooseFiles(selId) ==
    /\ Len(instances) = 1
    /\ ClassOf(instances[1]) = JSFun("Uploader")
    /\ Uploaded([loadFiles(uploads, instances[1], Selections[selId])
                    EXCEPT !.events = <<UploaderEvent(<<"c","h","o","o","s","e">>)>> \o @],
                "change", selId)
    /\ UNCHANGED <<elements, instances, tasks, requested, deckVars, queues, kind,
                   outbox, connVars, events>>

\* upload(), called by the page.
Upload ==
    /\ Len(instances) = 1
    /\ ClassOf(instances[1]) = JSFun("Uploader")
    /\ Uploaded(upload(uploads, instances[1]), "upload", "")
    /\ UNCHANGED <<elements, instances, tasks, requested, deckVars, queues, kind,
                   outbox, connVars, events>>

\* The sequence without its n-th element, or with run in its place.
Replace(seq, n, run) == SubSeq(seq, 1, n - 1) \o run \o SubSeq(seq, n + 1, Len(seq))

\* What post() does when the fetch the n-th upload() call awaits settles,
\* and the loop of that call up to its next await.  ok: the response has
\* ok true (and, for the presign request, the data post() reads).
PostSettled(u, this, n, ok) ==
    LET run == u.runs[n]
        f == Head(run.queue)
    IN IF ok /\ run.stage = "presign"
       THEN [u |-> [u EXCEPT !.sent = Append(@, u.uploadFiles[f].uid),
                             !.runs[n].stage = "upload"],
             events |-> <<>>]
       ELSE LET status == IF ok THEN done ELSE error
                p == Posting(SetStatus(u, f, status), this, Tail(run.queue))
            IN [u |-> [p.u EXCEPT !.runs = Replace(@, n, p.run)],
                events |-> <<UploaderEvent(status)>> \o p.events]

\* The network answers the fetch the n-th upload() call awaits.
Reply(n, ok) ==
    /\ n \in 1..Len(uploads.runs)
    /\ Uploaded(PostSettled(uploads, instances[1], n, ok), "reply", IF ok THEN "ok" ELSE "failed")
    /\ UNCHANGED <<elements, instances, tasks, requested, deckVars, queues, kind,
                   outbox, connVars, events>>

-----------------------------------------------------------------------------
(* Queue. *)

\* The queue_size values and the items of the page.
QueueSizes == {1, 2}
Items == {"x", "y"}

\* What starts the automatic processing: a callback, an event name, both
\* or neither.
QueueModes ==
    [manual |-> [callback |-> FALSE, event |-> FALSE],
     callback |-> [callback |-> TRUE, event |-> FALSE],
     event |-> [callback |-> FALSE, event |-> TRUE],
     both |-> [callback |-> TRUE, event |-> TRUE]]

\* new Queue(queue_size, callback, event, time): run() and fire() set the
\* flags callback and event and start their interval when auto is set.
Queue(queue_size, mode) ==
    [queue |-> <<>>,
     queue_size |-> queue_size,
     auto |-> mode.callback \/ mode.event,
     callback |-> mode.callback,
     event |-> mode.event]

\* enqueue(item).
enqueue(q, item) == [q EXCEPT !.queue = Append(@, item)]

\* shift(): the queue afterwards and the value returned.
shift(q) ==
    IF Len(q.queue) > 0
    THEN [q |-> [q EXCEPT !.queue = Tail(@)], value |-> JSStr(<<Head(q.queue)>>)]
    ELSE [q |-> q, value |-> JSUndefined]

\* shouldProcess() with document.visibilityState 'visible' or 'hidden'.
shouldProcess(q, visible) ==
    /\ Len(q.queue) > 0
    /\ (visible \/ (~visible /\ Len(q.queue) > q.queue_size))

NewQueue(queue_size, modeId) ==
    /\ Len(queues) < MaxQueues
    /\ queues' = Append(queues, Queue(queue_size, QueueModes[modeId]))
    /\ Observe(Op("new Queue", Len(queues) + 1, <<>>, modeId), NoResult, Quiet)
    /\ UNCHANGED <<elements, instances, tasks, requested, deckVars, uploads, kind,
                   outbox, connVars, events>>

Enqueue(n, item) ==
    /\ Len(queues[n].queue) < MaxQueued
    /\ queues' = [queues EXCEPT ![n] = enqueue(@, item)]
    /\ Observe(Op("enqueue", n, <<>>, item), NoResult, Quiet)
    /\ UNCHANGED <<elements, instances, tasks, requested, deckVars, uploads, kind,
                   outbox, connVars, events>>

Shift(n) ==
    /\ queues' = [queues EXCEPT ![n] = shift(@).q]
    /\ Observe(Op("shift", n, <<>>, ""), NoResult,
               [Quiet EXCEPT !.returned = shift(queues[n]).value])
    /\ UNCHANGED <<elements, instances, tasks, requested, deckVars, uploads, kind,
                   outbox, connVars, events>>

\* A tick of the interval run() started: callback(this.shift()).
TickCallback(n, visible) ==
    /\ queues[n].callback
    /\ IF shouldProcess(queues[n], visible)
       THEN /\ queues' = [queues EXCEPT ![n] = shift(@).q]
            /\ Observe(Op("interval", n, <<>>, "run"),
                       [calls |-> <<[callback |-> "callback",
                                     data |-> shift(queues[n]).value,
                                     registeredAs |-> <<>>]>>,
                        threw |-> FALSE],
                       Quiet)
       ELSE /\ UNCHANGED queues
            /\ Observe(Op("interval", n, <<>>, "run"), NoResult, Quiet)
    /\ UNCHANGED <<elements, instances, tasks, requested, deckVars, uploads, kind,
                   outbox, connVars, events>>

\* A tick of the interval fire() started:
\* deck.dispatchEvent(new CustomEvent(event, {detail: this.shift()})).  The
\* module declares no deck: without a global of that name the call is a
\* ReferenceError before shift() runs (global "none"); with a global that
\* has no dispatchEvent, as a Deck has none, the item is shifted and then
\* the call is a TypeError ("deck"); with an event target the event is
\* dispatched ("target").
TickEvent(n, visible, global) ==
    /\ queues[n].event
    /\ IF shouldProcess(queues[n], visible)
       THEN /\ queues' = IF global = "none" THEN queues
                         ELSE [queues EXCEPT ![n] = shift(@).q]
            /\ Observe(Op("interval", n, <<>>, "fire"), NoResult,
                       [Quiet EXCEPT
                           !.thrown = CASE global = "none" -> "ReferenceError"
                                        [] global = "deck" -> "TypeError"
                                        [] OTHER -> "none",
                           !.dispatched = IF global = "target" THEN <<"queue.event">>
                                          ELSE <<>>])
       ELSE /\ UNCHANGED queues
            /\ Observe(Op("interval", n, <<>>, "fire"), NoResult, Quiet)
    /\ UNCHANGED <<elements, instances, tasks, requested, deckVars, uploads, kind,
                   outbox, connVars, events>>

-----------------------------------------------------------------------------
(* Specifications. *)

\* Inputs of the connection runs.
ConnNames == {wssDisconnect, stateChange, feed42}
ConnCallbacks == {"cbA", "cbThrow"}

Subscribe ==
    \E name \in ConnNames, callback \in ConnCallbacks :
        RegCount(events) < MaxConnRegs /\ On(name, callback)

Opened == \E s \in 1..Len(sockets) : SockOpen(s)
Errored == \E s \in 1..Len(sockets) : SockError(s)
Closed == \E s \in 1..Len(sockets) : SockClose(s)
Message == \E s \in 1..Len(sockets), id \in FrameIds : SockMessage(s, id)

Next ==
    \/ Subscribe
    \/ Connect
    \/ Disconnect
    \/ TimerFire
    \/ Opened
    \/ Errored
    \/ Closed
    \/ Message

Spec == Init /\ [][Next]_vars

\* Inputs of the bus runs.
OnNames == {feed42, feedStar, wireStar, fDotStar}
EmitNames == {feed42, feedStar, feedColon, feedNL, fxd, fDotd}

Register ==
    \E name \in OnNames, callback \in Callbacks :
        RegCount(events) < MaxRegs /\ On(name, callback)

Unregister == \E name \in OnNames, callback \in Callbacks : Off(name, callback)
Destroy == \E name \in OnNames : DestroyEvent(name)
Publish == \E name \in EmitNames : Emit(name, payloadX)

NextBus ==
    \/ Register
    \/ Unregister
    \/ Destroy
    \/ Publish

InitBus == Init /\ kind = "Dispatcher"

SpecBus == InitBus /\ [][NextBus]_vars

\* Messages arriving on the sockets of an instance with subscribers.
NextMsg ==
    \/ Subscribe
    \/ Connect
    \/ Opened
    \/ Message

SpecMsg == Init /\ [][NextMsg]_vars

\* The page sending while sockets come and go.
Transmit == \E id \in DOMAIN Outgoing : Send(id)

NextSend ==
    \/ Connect
    \/ Disconnect
    \/ TimerFire
    \/ Opened
    \/ Errored
    \/ Closed
    \/ Transmit

SpecSend == Init /\ [][NextSend]_vars

\* The page asking for the connection state while sockets come and go.
NextProbe ==
    \/ Connect
    \/ Disconnect
    \/ TimerFire
    \/ Opened
    \/ Errored
    \/ Closed
    \/ IsConnected

SpecProbe == Init /\ [][NextProbe]_vars

\* A page with a Deck.
InitDeck == Init /\ kind = "Deck"

\* The page constructing components.
Build ==
    \/ \E optId \in DOMAIN Options, withDeck \in BOOLEAN, dci \in FreshIds :
           \/ Construct("none", "blank", optId, withDeck, dci)
           \/ Construct("bare", "blank", optId, withDeck, dci)
    \/ \E where \in {"plain", "data"}, attrId \in DOMAIN AttrStrings,
          optId \in DOMAIN Options, withDeck \in BOOLEAN, dci \in FreshIds :
           Construct(where, attrId, optId, withDeck, dci)

NextConfig == Build

SpecConfig == InitDeck /\ [][NextConfig]_vars

\* Components without an element, with and without the deck.
Mount ==
    \E withDeck \in BOOLEAN, dci \in FreshIds :
        Construct("none", "blank", "none", withDeck, dci)

Subscribed == \E i \in 1..Len(instances) : InitState(i)
Updated == \E i \in 1..Len(instances), id \in DOMAIN Partials : UpdateState(i, id)
Stored == \E i \in 1..Len(instances) : PageSetState(i, "two")

NextState ==
    \/ Mount
    \/ Subscribed
    \/ Updated
    \/ Stored

SpecState == InitDeck /\ [][NextState]_vars

Armed ==
    \E i \in 1..Len(instances), handler \in Handlers, ms \in Delays :
        SetTimeout(i, handler, ms)
Expired == \E t \in tasks.pending : Expire(t)

NextTimer ==
    \/ Mount
    \/ Armed
    \/ Expired

SpecTimer == InitDeck /\ [][NextTimer]_vars

\* A page with an accordion.
AccordionMade ==
    \E layoutId \in DOMAIN Layouts, optId \in DOMAIN AccordionOptions :
        ConstructAccordion(layoutId, optId, CHOOSE id \in FreshIds : TRUE)

AccordionOpened ==
    \E i \in 1..Len(instances), ix \in DOMAIN Indexes : AccordionOpen(i, ix)

AccordionClosed ==
    \E i \in 1..Len(instances), ix \in DOMAIN Indexes : AccordionClose(i, ix)

AccordionToggled ==
    \E i \in 1..Len(instances), ix \in DOMAIN Indexes : AccordionToggle(i, ix)

AccordionClosedAll == \E i \in 1..Len(instances) : AccordionCloseAll(i)

AccordionClicked ==
    \E i \in 1..Len(instances), k \in 1..3 : AccordionClick(i, k)

NextAccordion ==
    \/ AccordionMade
    \/ AccordionOpened
    \/ AccordionClosed
    \/ AccordionToggled
    \/ AccordionClosedAll
    \/ AccordionClicked

SpecAccordion == InitDeck /\ [][NextAccordion]_vars

\* A page with a feed.
FeedMade ==
    \E optId \in DOMAIN FeedOptions, withDeck \in BOOLEAN :
        ConstructFeed(optId, withDeck, CHOOSE id \in FreshIds : TRUE)

WireMade ==
    \E optId \in DOMAIN FeedOptions, withDeck \in BOOLEAN :
        ConstructWire(optId, withDeck, CHOOSE id \in FreshIds : TRUE)

FeedSubscribed == \E i \in 1..Len(instances) : FeedSubscribe(i)

FeedUnsubscribed == \E i \in 1..Len(instances) : FeedUnsubscribe(i)

\* The channels the backend publishes on.
Channels ==
    {feed \o <<":">> \o feed, feed \o <<":">> \o feed \o <<":">> \o seven,
     feed \o <<":">> \o wire \o <<":">> \o seven,
     feed \o <<":">> \o wire \o <<":","5">>}

FeedMessaged == \E name \in Channels : FeedMessage(name)

FeedConnected == Len(sockets) < MaxFeeds /\ Connect

NextFeed ==
    \/ FeedMade
    \/ WireMade
    \/ FeedSubscribed
    \/ FeedUnsubscribed
    \/ FeedMessaged
    \/ FeedConnected
    \/ Opened

SpecFeed == InitDeck /\ [][NextFeed]_vars

\* A page with an uploader.
UploaderMade ==
    \E optId \in DOMAIN UploaderOptions, declared \in BOOLEAN :
        ConstructUploader(optId, declared, CHOOSE id \in FreshIds : TRUE)

Chosen == \E selId \in DOMAIN Selections : ChooseFiles(selId)

Replied == \E n \in 1..MaxUploads, ok \in BOOLEAN : Reply(n, ok)

NextUpload ==
    \/ UploaderMade
    \/ Chosen
    \/ Upload
    \/ Replied

SpecUpload == InitDeck /\ [][NextUpload]_vars

\* A page with a queue.
QueueMade ==
    \E queue_size \in QueueSizes, modeId \in DOMAIN QueueModes :
        NewQueue(queue_size, modeId)

Enqueued == \E n \in 1..Len(queues), item \in Items : Enqueue(n, item)
Shifted == \E n \in 1..Len(queues) : Shift(n)
TickedCallback == \E n \in 1..Len(queues), visible \in BOOLEAN : TickCallback(n, visible)

TickedEvent ==
    \E n \in 1..Len(queues), visible \in BOOLEAN, global \in {"none", "deck", "target"} :
        TickEvent(n, visible, global)

NextQueue ==
    \/ QueueMade
    \/ Enqueued
    \/ Shifted
    \/ TickedCallback
    \/ TickedEvent

SpecQueue == Init /\ [][NextQueue]_vars

\* A page whose components the deck loads.
Marked ==
    \/ \E tag \in {"dialog", "div"} : AddElement(tag, modal, "class")
    \/ \E how \in {"class", "data"} : AddElement("dialog", offcanvas, how)

Autoloading ==
    \E filterId \in DOMAIN Filters, globalEl \in BOOLEAN : Autoload(filterId, globalEl)

NextLoad ==
    \/ Marked
    \/ RegisterComponents
    \/ Autoloading

SpecLoad == InitDeck /\ [][NextLoad]_vars

\* Components on elements with listeners, dialogs among them.
MountWidget ==
    \E where \in {"none", "bare"}, withDeck \in BOOLEAN :
        /\ Len(instances) < MaxDialogs
        /\ Len(elements) < MaxDialogs
        /\ Construct(where, "blank", "none", withDeck, CHOOSE id \in FreshIds : TRUE)

MountModal ==
    \E tag \in {"dialog", "div"}, globalEl \in BOOLEAN :
        ConstructModal(tag, TRUE, globalEl, CHOOSE id \in FreshIds : TRUE)

MountOffcanvas == ConstructOffcanvas(TRUE, CHOOSE id \in FreshIds : TRUE)

Listened ==
    \E e \in 1..Len(elements) :
        \/ \E handler \in PageHandlers : Listen(e, beforeshow, handler)
        \/ Listen(e, beforehide, "preventDefault")

BusSubscribed ==
    \E callback \in ConnCallbacks :
        RegCount(events) < MaxConnRegs /\ On(beforeshow, callback)

Dispatched ==
    \E i \in 1..Len(instances), detailId \in DOMAIN Details, isCustom \in BOOLEAN :
        DispatchEvent(i, beforeshow, detailId, isCustom)

\* A page of components that fire DOM events, with listeners on their
\* elements and subscribers on the deck.
NextEvent ==
    \/ MountWidget
    \/ Listened
    \/ BusSubscribed
    \/ Dispatched

SpecEvent == InitDeck /\ [][NextEvent]_vars

Shown == \E i \in 1..Len(instances) : Open(i)
Hidden == \E i \in 1..Len(instances) : Close(i)
DialogTimer == \E t \in tasks.pending : ExpireDialog(t)

NextDom ==
    \/ MountWidget
    \/ MountModal
    \/ MountOffcanvas
    \/ Listened
    \/ BusSubscribed
    \/ Dispatched
    \/ Shown
    \/ Hidden
    \/ DialogTimer

SpecDom == InitDeck /\ [][NextDom]_vars

-----------------------------------------------------------------------------
(* Properties of the transport (checked under Spec). *)

Reconnection == Truthy(GetProp(state, "reconnection"))

LiveSockets == {s \in 1..Len(sockets) : sockets[s] \in {CONNECTING, OPEN}}

\* C1: once disconnect() has been called, in whatever connection state, the
\* reconnection flag is false, no later close event arms a reconnect timer
\* and no timer firing creates a socket; disconnect() itself never throws.
C1_DisconnectIsFinal ==
    disconnectCalled =>
        /\ ~Reconnection
        /\ op.name = "disconnect" => thrown = "none"
        /\ op.name = "onclose" => scheduled = <<>>
        /\ op.name # "timer"

\* C2: a close event handled while the reconnection flag is true emits
\* wssDisconnect first and then arms exactly one reconnect timer; the error
\* handler arms none.
C2_OneReconnectPerClose ==
    /\ op.name = "onclose" /\ Reconnection =>
           /\ Len(emitted) > 0
           /\ emitted[1] = Emission(JSStr(wssDisconnect), JSUndefined)
           /\ Len(scheduled) = 1
    /\ op.name = "onerror" => scheduled = <<>>

\* C3: at most one socket of the instance is CONNECTING or OPEN, and a
\* reconnect timer creates a socket only when the previous one is null or
\* CLOSED.
C3_OneLiveSocket ==
    /\ Cardinality(LiveSockets) <= 1
    /\ op.name = "timer" =>
           op.socket = 1 \/ sockets[op.socket - 1] = CLOSED

\* C4: a Deck recovers by itself: as long as disconnect() has not been
\* called, whenever every socket it created is closed (all their close
\* events handled) a reconnect timer is pending, so that a new connection
\* attempt follows without a call of connect().
C4_DeckReconnects ==
    ( /\ kind = "Deck"
      /\ ~disconnectCalled
      /\ pendingClose = 0
      /\ Len(sockets) > 0
      /\ \A s \in 1..Len(sockets) : sockets[s] = CLOSED )
    => Len(timers) > 0

\* C5: every reconnect timer is armed with the delay held in
\* this.state.reconnectionDelay, never with an undefined or zero delay.
C5_TimerUsesConfiguredDelay ==
    \A i \in 1..Len(timers) :
        /\ timers[i].delay = GetProp(state, "reconnectionDelay")
        /\ timers[i].ms > 0

\* C9: on every path that delivers events, a subscriber that throws ends
\* the delivery (no later subscriber is invoked) and its exception leaves
\* the handler: it is not swallowed, replaced or reported as a notification.
C9_SubscriberFailurePropagates ==
    \A i \in 1..Len(calls) :
        Throws(calls[i].callback) =>
            /\ i = Len(calls)
            /\ thrown = "Error"
            /\ said = <<>>

\* C10: a text frame that is not valid JSON makes the message handler emit
\* nothing, raise one warning notification and return normally, on a plain
\* Dispatcher as on a Deck.
C10_MalformedFrameWarns ==
    ( /\ op.name = "onmessage"
      /\ Frames[op.arg].type = "string"
      /\ ~Frames[op.arg].valid )
    => /\ emitted = <<>>
       /\ thrown = "none"
       /\ said = <<notification("Unknown signal", "danger")>>

-----------------------------------------------------------------------------
(* Properties of the bus (checked under SpecBus). *)

RECURSIVE CallsOf(_, _)
\* The invocations that firing the entries, one after the other, makes.
CallsOf(entries, data) ==
    IF Len(entries) = 0 THEN <<>>
    ELSE [k \in 1..Len(Head(entries).callbacks) |->
             [callback |-> Head(entries).callbacks[k], data |-> data,
              registeredAs |-> Head(entries).eventName]]
         \o CallsOf(Tail(entries), data)

\* The entry registered exactly under name, then the entries whose
\* wildcard pattern the dispatcher matches with name.
Addressed(evts, name) ==
    SelectSeq(evts, LAMBDA e : e.eventName = name)
    \o SelectSeq(evts, LAMBDA e : WildcardMatches(e.eventName, name))

\* A sequence of invocations up to the first one that throws.
UntilThrow(cs) ==
    IF \E k \in 1..Len(cs) : Throws(cs[k].callback)
    THEN SubSeq(cs, 1, CHOOSE k \in 1..Len(cs) :
                          /\ Throws(cs[k].callback)
                          /\ \A j \in 1..(k - 1) : ~Throws(cs[j].callback))
    ELSE cs

\* C6: emit(name, data) has invoked, when it returns, the callbacks
\* registered exactly under name in registration order and then those of
\* every matching wildcard pattern, each pattern's in registration order,
\* and no other callback; when a callback throws, the invocations are that
\* sequence up to the throwing one.
C6_EmitOrder ==
    op.name = "emit" =>
        LET all == CallsOf(Addressed(events, op.eventName), emitted[1].data)
        IN /\ calls = UntilThrow(all)
           /\ thrown = "none" => calls = all

\* C6's case: a pattern registered before an exact name is still invoked
\* after it.
C6_Witness ==
    /\ op.name = "emit"
    /\ thrown = "none"
    /\ Len(calls) = 2
    /\ calls[1].registeredAs = op.eventName
    /\ calls[2].registeredAs # op.eventName
    /\ EventIndex(events, calls[2].registeredAs)
           < EventIndex(events, calls[1].registeredAs)

RECURSIVE Glob(_, _, _, _)
\* Whether pattern[i..] spells str[j..] with each "*" standing for any
\* substring and every other character for itself.
Glob(pattern, i, str, j) ==
    IF i > Len(pattern) THEN j > Len(str)
    ELSE IF pattern[i] = "*"
         THEN \/ Glob(pattern, i + 1, str, j)
              \/ j <= Len(str) /\ Glob(pattern, i, str, j + 1)
         ELSE /\ j <= Len(str)
              /\ str[j] = pattern[i]
              /\ Glob(pattern, i + 1, str, j + 1)

FiredAs(name) == \E k \in 1..Len(calls) : calls[k].registeredAs = name

\* C7: on emit(N) the callbacks of a registered name P containing "*" fire
\* if and only if N is P with each "*" replaced by some (possibly empty)
\* substring, every other character of P taken literally.
C7_WildcardIsGlob ==
    op.name = "emit" /\ thrown = "none" =>
        \A i \in 1..Len(events) :
            Includes(events[i].eventName, "*") =>
                (FiredAs(events[i].eventName)
                     <=> Glob(events[i].eventName, 1, op.eventName, 1))

\* The same for emitted names that hold no line terminator.
WildcardIsGlobOnOneLine ==
    ( /\ op.name = "emit"
      /\ thrown = "none"
      /\ \A j \in 1..Len(op.eventName) : op.eventName[j] \notin LineTerminators )
    => \A i \in 1..Len(events) :
           Includes(events[i].eventName, "*") =>
               (FiredAs(events[i].eventName)
                    <=> Glob(events[i].eventName, 1, op.eventName, 1))

NoEmptyEntry(evts) == \A i \in 1..Len(evts) : Len(evts[i].callbacks) > 0

CallbacksOf(evts, name) ==
    IF hasEvent(evts, name) THEN evts[EventIndex(evts, name)].callbacks
    ELSE <<>>

\* What a step that is off(name, callback) does to the event table.
OffStep(name, callback) ==
    LET before == CallbacksOf(events, name)
        after == CallbacksOf(events', name)
    IN /\ IF \E k \in 1..Len(before) : before[k] = callback
          THEN \E k \in 1..Len(before) :
                   before[k] = callback /\ after = Splice1(before, k)
          ELSE after = before
       /\ SelectSeq(events', LAMBDA e : e.eventName # name)
              = SelectSeq(events, LAMBDA e : e.eventName # name)
       /\ hasEvent(events', name) <=> Len(after) > 0

\* C8: off(name, cb) removes exactly one registration of cb under name and
\* leaves every other registration as it was; removing the last callback of
\* name deletes the entry, so that hasEvent(name) is false; and no entry of
\* the event table ever has an empty callback list.
C8_OffRemovesOne ==
    /\ NoEmptyEntry(events)
    /\ [][ /\ NoEmptyEntry(events')
           /\ op'.name = "off" => OffStep(op'.eventName, op'.arg) ]_vars

\* C8's case: off has removed the last callback of a name and the entry is
\* gone.
C8_Witness ==
    /\ op.name = "off"
    /\ Len(unregistered) = 1
    /\ ~hasEvent(events, op.eventName)
    /\ Len(events) > 0

-----------------------------------------------------------------------------
(* Properties of message routing (checked under SpecMsg). *)

\* The values that count as false.
Falsy == {JSUndefined, JSNull, JSBool(FALSE), JSNum(0), JSStr(<<>>)}

\* The emit call a parsed payload is routed to: by channel when the channel
\* field is truthy, else by event.
RoutedAs(datum) ==
    LET channel == IF datum.t = "object" /\ "channel" \in DOMAIN datum.fields
                   THEN datum.fields.channel ELSE JSUndefined
        event == IF datum.t = "object" /\ "event" \in DOMAIN datum.fields
                 THEN datum.fields.event ELSE JSUndefined
        data == IF datum.t = "object" /\ "data" \in DOMAIN datum.fields
                THEN datum.fields.data ELSE JSUndefined
    IN IF channel \notin Falsy THEN Emission(channel, datum)
       ELSE Emission(event, data)

ParsedFrame == op.name = "onmessage" /\ Frames[op.arg].type = "string"
                                     /\ Frames[op.arg].valid

\* What the handler does do: a text frame that parses to a JSON value other
\* than null makes exactly one emit call: emit(channel, whole payload) when
\* the payload's channel field is truthy, else emit(payload.event,
\* payload.data); a frame that parses to null makes no emit call.
RoutedByTruthyChannel ==
    ParsedFrame =>
        IF Frames[op.arg].value.t = "null" THEN emitted = <<>>
        ELSE emitted = <<RoutedAs(Frames[op.arg].value)>>

\* C11: every text frame that parses as JSON makes exactly one emit call:
\* emit(channel, whole payload) whenever the payload has a channel field
\* (an event field beside it or not), else emit(payload.event, payload.data).
C11_OneEmissionPerParsedFrame ==
    ParsedFrame =>
        LET datum == Frames[op.arg].value
            hasChannel == datum.t = "object" /\ "channel" \in DOMAIN datum.fields
        IN /\ Len(emitted) = 1
           /\ hasChannel => emitted[1] = Emission(datum.fields.channel, datum)
           /\ ~hasChannel => emitted[1] = RoutedAs(datum)

-----------------------------------------------------------------------------
(* Properties of send (checked under SpecSend). *)

\* The JSON text of each outgoing value.
SerializedAs ==
    [text |-> <<"\"", "a", "\\", "\"", "b", "\"">>,
     number |-> <<"4", "2">>]

\* C12: send(data) puts the JSON text of data on the wire of the current
\* socket exactly when that socket is OPEN at the call; otherwise it puts
\* nothing on the wire; it never throws, and no other step (a reconnect
\* included) puts anything on the wire.
C12_SendOnlyWhenOpen ==
    [][ /\ op'.name = "send" =>
            /\ thrown' = "none"
            /\ outbox' = IF wss # 0 /\ sockets[wss] = OPEN
                         THEN Append(outbox, [socket |-> wss,
                                              text |-> SerializedAs[op'.arg]])
                         ELSE outbox
        /\ op'.name # "send" => outbox' = outbox ]_vars

\* C12 witness: a send was dropped, the instance reconnected, and a later
\* send on the open socket is the only thing on the wire.
C12_Witness ==
    /\ op.name = "send"
    /\ Len(sockets) >= 2
    /\ sockets[1] = CLOSED
    /\ outbox = <<[socket |-> wss, text |-> SerializedAs["text"]]>>

-----------------------------------------------------------------------------
(* Properties of component construction (checked under SpecConfig). *)

\* The instance the last step constructed, and the configuration string of
\* its element (<<>> if it has none).
Constructed == op.name = "new Component" /\ thrown = "none"
Built == instances[returned.id]
ConfigString(s) ==
    IF s = 0 \/ elements[s].attributes = <<>> THEN <<>>
    ELSE elements[s].attributes[1].value

\* What the well-formed configuration strings denote.
Denotes ==
    [list |-> [a |-> JSNum(1), b |-> JSBool(TRUE),
               c |-> JSArr(<<JSStr(<<"x">>), JSStr(<<"y">>)>>)],
     spaced |-> [a |-> JSNum(7), k |-> JSBool(FALSE)],
     colon |-> [u |-> JSStr(<<"x", ":", "y">>)]]

\* The properties an instance has whatever its configuration.
OwnFields(optId) ==
    DOMAIN Defaults(EmptyObject, <<>>) \cup DOMAIN Options[optId]
        \cup {"deck", "onStateChange", "render"}

\* C18: an element whose attribute is a well-formed string of key:value
\* pairs gives the instance one field per pair and no other, with the value
\* a boolean for true/false in any letter case, a number for a numeric
\* value, an array of trimmed strings for a value with a comma, and else
\* the trimmed text after the pair's first ':'.
C18_AttributeParsed ==
    \A id \in DOMAIN Denotes :
        (op.name = "new Component" /\ ConfigString(op.socket) = AttrStrings[id]) =>
            /\ Constructed
            /\ \A key \in DOMAIN Denotes[id] :
                   key \in DOMAIN Built /\ Built[key] = Denotes[id][key]
            /\ DOMAIN Built = OwnFields(op.arg) \cup DOMAIN Denotes[id]

\* C19: constructing a component on an element whose attribute has a pair
\* without ':' among well-formed pairs does not throw: the instance exists
\* and has the fields of the well-formed pairs.
C19_MalformedPairDropped ==
    (op.name = "new Component" /\ ConfigString(op.socket) = AttrStrings["nocolon"]) =>
        /\ Constructed
        /\ "a" \in DOMAIN Built /\ Built["a"] = JSNum(1)

\* C20: on the constructed instance a field the element attribute supplies
\* has the attribute's value whatever the options say, a field only the
\* options supply has the options' value whatever the default, and the
\* identifier is the generated one, with the state key derived from it.
C20_LaterSourceWins ==
    Constructed =>
        /\ ConfigString(op.socket) = AttrStrings["list"] => Built["a"] = JSNum(1)
        /\ op.arg = "some" => Built["debug"] = JSBool(TRUE)
        /\ Built["dci"] = JSStr(returned.generated)
        /\ Built["stateKey"] = JSStr(drop \o <<"-">> \o Built["dci"].s)

-----------------------------------------------------------------------------
(* Properties of component state (checked under SpecState). *)

\* C16: for instances a and b with different state keys, an updateState
\* call on b, or a deck.setState under b's key, leaves a's local state as it
\* was and does not invoke a's onStateChange.
C16_OtherKeysUntouched ==
    [][ \A a, b \in 1..Len(instances) :
            ( /\ op'.name \in {"updateState", "setState"}
              /\ op'.socket = b
              /\ instances[a].stateKey # instances[b].stateKey )
            => /\ instances'[a].state = instances[a].state
               /\ \A n \in 1..Len(notified') : notified'[n] # a ]_vars

\* C16 witness: two instances with different keys have both called
\* initState, and an updateState on the second has reached the second alone.
C16_Witness ==
    /\ Len(instances) = 2
    /\ instances[1].stateKey # instances[2].stateKey
    /\ \E e \in 1..Len(events) :
           /\ IndexOf(events[e].callbacks, Subscribers[1]) # 0
           /\ IndexOf(events[e].callbacks, Subscribers[2]) # 0
    /\ op.name = "updateState" /\ op.socket = 2
    /\ notified = <<2>>
    /\ instances[2].state # instances[1].state

\* C17: after updateState(partial) the instance's local state is the shallow
\* merge of its previous local state with partial, and with a deck
\* deck.getState(stateKey) is that merged record, with or without a deck and
\* whether or not initState() was called.
C17_UpdateStateMerges ==
    [][ op'.name = "updateState" =>
            LET this == instances[op'.socket]
                merged == JSObj(Partials[op'.arg].fields @@ this.state.fields)
            IN /\ instances'[op'.socket].state = merged
               /\ Truthy(this.deck) => getState(state', this.stateKey) = merged ]_vars

-----------------------------------------------------------------------------
(* Properties of the timer slot (checked under SpecTimer). *)

\* The pending timers the i-th instance armed.
PendingOf(ts, i) == {t \in ts.pending : t.owner = i /\ t.slot}

\* C15: an instance has at most one handler pending at any time; a
\* setTimeout call leaves the handler it was given as the only pending one
\* (a timer still pending from an earlier call is cancelled), and a handler
\* that runs is that pending one and is pending no longer.
C15_SingleTimerSlot ==
    /\ \A i \in 1..Len(instances) : Cardinality(PendingOf(tasks, i)) <= 1
    /\ [][ /\ \A i \in 1..Len(instances') : Cardinality(PendingOf(tasks', i)) <= 1
           /\ op'.name = "setTimeout" =>
                  \E t \in tasks'.pending :
                      /\ PendingOf(tasks', op'.socket) = {t}
                      /\ t.id = tasks.next /\ t.handler = op'.arg
           /\ op'.name = "timeout" =>
                  /\ PendingOf(tasks', op'.socket) = {}
                  /\ \E t \in PendingOf(tasks, op'.socket) :
                         /\ t.handler = op'.arg
                         /\ JSNum(t.id) = instances[op'.socket].timeout ]_vars

\* C15 witness: one instance called setTimeout twice, the second time
\* before the first timer expired, and the second handler has run with
\* nothing left pending.
C15_Witness ==
    /\ Len(instances) = 1
    /\ tasks = [next |-> 3, pending |-> {}]
    /\ instances[1].timeout = JSNum(2)
    /\ op = Op("timeout", 1, <<>>, "handlerB")

-----------------------------------------------------------------------------
(* C13, C14: DOM events of components and the dialogs' open and close. *)

\* A listener of the element cancels events of the type.
Cancelling(e, type) ==
    \E k \in 1..Len(elements[e].listeners) :
        /\ elements[e].listeners[k].type = type
        /\ elements[e].listeners[k].handler = "preventDefault"

\* The last step was a dispatchEvent call that fired a DOM event.
FiredDomEvent == op.name = "dispatchEvent" /\ domEvents # <<>>

\* C13: when a listener cancels the DOM event, dispatchEvent returns false
\* and publishes nothing on the deck; when none cancels it, a call that
\* returns returns true, and exactly one event with the same name and
\* detail is published if a deck is present, none otherwise.
C13_CancelledOrPublished ==
    FiredDomEvent =>
        LET this == instances[op.socket]
        IN IF Cancelling(this.element.id, op.eventName)
           THEN /\ returned = JSBool(FALSE)
                /\ emitted = <<>>
                /\ calls = <<>>
           ELSE /\ thrown = "none" => returned = JSBool(TRUE)
                /\ emitted = IF this.deck = DeckRef
                             THEN <<Emission(JSStr(op.eventName), Details[op.arg])>>
                             ELSE <<>>

\* C13 witness: a cancelled event on a component with a deck on which a
\* subscriber waits for the event's name.
C13_Witness ==
    /\ FiredDomEvent
    /\ instances[op.socket].deck = DeckRef
    /\ Cancelling(instances[op.socket].element.id, op.eventName)
    /\ hasEvent(events, op.eventName)
    /\ returned = JSBool(FALSE)

\* The DOM events of the last step have one of the type.
Fired(evs, type) == \E k \in 1..Len(evs) : evs[k].type = type

\* C14: when a listener cancels 'beforeshow', open() leaves the dialog as
\* it is, arms no timer that would show it and does not dispatch 'shown';
\* when a listener cancels 'beforehide', close() leaves the dialog as it
\* is, arms no timer that would close it and does not dispatch 'hidden'.
C14_VetoedActionAborts ==
    [][/\ (op'.name = "open"
           /\ Cancelling(instances[op'.socket].element.id, beforeshow))
          => (UNCHANGED <<elements, tasks>> /\ ~Fired(domEvents', shown))
       /\ (op'.name = "close"
           /\ Cancelling(instances[op'.socket].element.id, beforehide))
          => (UNCHANGED <<elements, tasks>> /\ ~Fired(domEvents', hidden))]_vars

-----------------------------------------------------------------------------
(* C23: isConnected. *)

\* C23: isConnected() returns true exactly when the readyState of the
\* current socket is OPEN, and false in every other connection state.
C23_IsConnectedMeansOpen ==
    (op.name = "isConnected" /\ wss # 0) =>
        returned = JSBool(sockets[wss] = OPEN)

-----------------------------------------------------------------------------
(* C27, C28: subscribers of the bus. *)

\* How often x occurs in the sequence.
Occurrences(seq, x) == Cardinality({k \in 1..Len(seq) : seq[k] = x})

\* C27: one emit() call invokes each registration of a callback at most
\* once: a callback is not invoked for an entry more often than it is
\* registered in that entry.
C27_OncePerRegistration ==
    op.name = "emit" =>
        \A i \in 1..Len(events), cb \in Callbacks :
            Cardinality({k \in 1..Len(calls) :
                            /\ calls[k].callback = cb
                            /\ calls[k].registeredAs = events[i].eventName})
                <= Occurrences(events[i].callbacks, cb)

\* C28: after the close handler ran with the reconnection flag true and
\* the current socket null or CLOSED, a reconnect timer has been armed,
\* whatever the subscribers of wssDisconnect did.
C28_ReconnectDespiteSubscriber ==
    (/\ op.name = "onclose"
     /\ GetProp(state, "reconnection") = JSBool(TRUE)
     /\ (wss = 0 \/ sockets[wss] = CLOSED))
        => scheduled # <<>>

-----------------------------------------------------------------------------
(* C30: an Offcanvas opened and closed in quick succession. *)

\* No timer armed by open() or close() of instance i is pending.
Settled(i) == \A t \in tasks.pending : t.owner # i

\* C30: once all pending timers of an Offcanvas have fired, the dialog is
\* closed if close() was the last of open() and close() called on it, and
\* open if open() was.
C30_LastActionWins ==
    \A i \in DOMAIN requested :
        (ClassOf(instances[i]) = JSFun("Offcanvas") /\ Settled(i))
            => elements[instances[i].element.id].open = (requested[i] = "open")

-----------------------------------------------------------------------------
(* C21, C22: autoload. *)

\* The instances the step made.
NewInstances == (Len(instances) + 1)..Len(instances')

\* After the step the instance table records an instance on element e.
Recorded(e) ==
    \E k \in 1..Len(registry') : instances'[registry'[k].instance].element.id = e

\* The step made an instance of the component name on element e and
\* recorded it in the instance table.
Instantiated(e, name) ==
    \E i \in NewInstances :
        /\ instances'[i].element.id = e
        /\ instances'[i].name = JSStr(name)
        /\ \E k \in 1..Len(registry') : registry'[k].instance = i

\* Element e is marked for the Modal component and is no dialog element.
NoDialog(e) == Selected(elements[e], modal) /\ elements[e].tag # "dialog"

\* The constructor registered under name succeeds on element e of the
\* page as it is.
Constructs(name, e, globalEl) ==
    Factory(components, name, e, Generated(1), elements, globalEl).threw = "none"

\* C21: a Modal on an element that is no dialog fails before any side
\* effect, and autoload() contains the failure: the failed element is as
\* it was, has no instance and no record in the instance table, and every
\* other element marked for a registered component is instantiated and
\* recorded exactly when its own constructor succeeds.
C21_FailFastAndContained ==
    [][(op'.name = "autoload" /\ op'.arg = "none") =>
          /\ thrown' = "none"
          /\ \A e \in 1..Len(elements) :
                 IF NoDialog(e)
                 THEN /\ elements'[e] = elements[e]
                      /\ \A i \in NewInstances : instances'[i].element.id # e
                      /\ ~Recorded(e)
                 ELSE \A k \in 1..Len(components) :
                          Selected(elements[e], components[k].name)
                              => (Instantiated(e, components[k].name)
                                     <=> Constructs(components[k].name, e,
                                                    op'.socket = 1))]_vars

\* C21 witness: autoload() on a page whose first element is marked for
\* Modal and is no dialog, and whose later element got its instance.
C21_Witness ==
    /\ op.name = "autoload"
    /\ op.arg = "none"
    /\ Len(elements) >= 2
    /\ Selected(elements[1], modal)
    /\ elements[1].tag # "dialog"
    /\ elements[1].listeners = <<>>
    /\ Len(instances) = 1
    /\ instances[1].element.id = 2
    /\ Len(registry) = 1

\* The component names a filter names: those of the list, the one of the
\* string, every registered one without a filter.
NamedBy(filter) ==
    CASE filter.t = "array" -> {filter.items[i].s : i \in 1..Len(filter.items)}
      [] filter.t = "string" -> {filter.s}
      [] OTHER -> {components[k].name : k \in 1..Len(components)}

\* C22: autoload(filter) makes instances of the components the filter
\* names only, and of every registered component without a filter.
C22_OnlyFiltered ==
    [][op'.name = "autoload" =>
          \A i \in NewInstances :
              instances'[i].name.s \in NamedBy(Filters[op'.arg])]_vars

-----------------------------------------------------------------------------
(* C24: the size of a Queue. *)

\* C24: a queue never holds more than queue_size items.
C24_SizeWithinQueueSize ==
    \A n \in 1..Len(queues) : Len(queues[n].queue) <= queues[n].queue_size

-----------------------------------------------------------------------------
(* C25: the open items of an Accordion. *)

\* The li elements of instance i.
ItemsOf(i) == elements[instances[i].element.id].items

\* The positions of the li elements of instance i that carry the class open.
OpenItems(i) == {k \in 1..Len(ItemsOf(i)) : ItemsOf(i)[k].open}

\* The index the step's toggle(index) was called with: the argument of the
\* call, or getLiIndex of the clicked li.
ToggledIndex(i) ==
    IF op'.name = "toggle" THEN Indexes[op'.arg]
    ELSE JSNum(ItemsOf(i)[CHOOSE k \in 1..Len(ItemsOf(i)) : NatToString(k) = op'.arg].childIndex)

\* C25: an Accordion with allowMultiple false that started with at most
\* one open item has at most one open item after every step; and with
\* noCollapse true a toggle(index) call or a title click on an accordion
\* whose only open item is k leaves an item open: toggling k does not close
\* it, and toggling another item opens that one in its place.
C25_AtMostOneOpen ==
    [][\A i \in 1..Len(instances') :
          /\ instances'[i].allowMultiple = JSBool(FALSE)
                 => Cardinality(OpenItems(i)') <= 1
          /\ (/\ i \in 1..Len(instances)
              /\ op'.name \in {"toggle", "click"}
              /\ instances[i].noCollapse = JSBool(TRUE)
              /\ Cardinality(OpenItems(i)) = 1)
                 => /\ OpenItems(i)' # {}
                    /\ getTab(ItemsOf(i), ToggledIndex(i)) \in OpenItems(i)
                           => OpenItems(i)' = OpenItems(i)]_vars

\* C25 witness: open(index) on another item than the open one of an
\* accordion with allowMultiple false left that item as the only open one.
C25_Witness ==
    /\ op.name = "open"
    /\ instances[op.socket].allowMultiple = JSBool(FALSE)
    /\ op.arg = "zero"
    /\ OpenItems(op.socket) = {1}
    /\ Len(ItemsOf(op.socket)) = 3

-----------------------------------------------------------------------------
(* C26: a feed's registrations on the bus. *)

\* C26: the datum handler of every Feed and Wire instance is registered
\* under the instance's WebSocket event name at most once, whatever
\* constructors and subscribe() calls ran.
C26_RegisteredAtMostOnce ==
    \A i \in 1..Len(instances) :
        TimesRegistered(events, JSToString(GetProp(instances[i], "wssEvent")),
                        onDatumOf(instances[i])) <= 1

-----------------------------------------------------------------------------
(* C29: what an Uploader transmits. *)

\* How many upload requests carried the file with this uid.
TimesSent(uid) == Len(SelectSeq(uploads.sent, LAMBDA x : x = uid))

\* C29: no file of the upload list is transmitted to the backend more than
\* once, however upload() calls overlap.
C29_SentAtMostOnce ==
    \A k \in 1..Len(uploads.uploadFiles) :
        TimesSent(uploads.uploadFiles[k].uid) <= 1

====
